---- MODULE Spec2Model ----
(***************************************************************************)
(* State-machine model of the CUHK course-catalog scraper                  *)
(* (src/cuhk_scraper.py): the CAPTCHA search loop of scrape_subject, the   *)
(* per-subject orchestration of scrape_all_subjects, the durable progress  *)
(* document of ScrapingProgressTracker and the per-subject output files.   *)
(*                                                                         *)
(* Files are written with open(path, 'w') followed by json.dump, so a      *)
(* write is two steps: the open truncates the file, the dump fills it.     *)
(* An interrupt (KeyboardInterrupt or a kill) may arrive between any two   *)
(* steps; it abandons the run without any further write.                   *)
(***************************************************************************)
EXTENDS Integers, Sequences, FiniteSets, TLC

(***************************************************************************)
(* Bounds of the model.                                                    *)
(***************************************************************************)
NumSubjects == 2          \* length of the subject list given to a run
MaxCourses == 2           \* longest course listing a search returns
MaxTime == 3              \* ticks one detail loop can take
MaxRestarts == 1          \* process restarts after the first run
MaxTerms == 2             \* options of a term selector
MaxRows == 1              \* rows of a schedule table
MaxClassAttrs == 5        \* characters of a class attributes string
MaxCourseAttrs == 3       \* characters of a course attributes string
MaxCountLen == 2          \* characters of a seat count
MaxLabelLen == 4          \* characters of a section label
MaxGroupedRows == 3       \* rows of a schedule table with repeated labels

(***************************************************************************)
(* Configuration (ScrapingConfig).  max_retries and the interval are scaled*)
(* down from the defaults (5 attempts, 60 seconds); the interval is in     *)
(* clock ticks.                                                            *)
(***************************************************************************)
max_retries == 2
progress_update_interval == 2
track_progress == TRUE
get_details == TRUE

subjects == [k \in 1..NumSubjects |-> k]
Subjects == 1..NumSubjects

None == << >>

(***************************************************************************)
(* _solve_captcha: the classifier's raw output is stripped, upper-cased    *)
(* and accepted only when it is exactly 4 alphanumeric characters.         *)
(***************************************************************************)
Upper(c) == IF c = "a" THEN "A" ELSE IF c = "b" THEN "B" ELSE c

IsAlnumChar(c) == c \in {"A", "B", "a", "b", "7"}

RECURSIVE LStrip(_)
LStrip(s) == IF s # << >> /\ Head(s) = " " THEN LStrip(Tail(s)) ELSE s

RECURSIVE RStrip(_)
RStrip(s) ==
    IF s # << >> /\ s[Len(s)] = " " THEN RStrip(SubSeq(s, 1, Len(s) - 1)) ELSE s

Strip(s) == RStrip(LStrip(s))

UpperStr(s) == [k \in 1..Len(s) |-> Upper(s[k])]

IsAlnum(s) == Len(s) > 0 /\ \A k \in 1..Len(s) : IsAlnumChar(s[k])

_solve_captcha_unchecked(raw) ==
    LET text == UpperStr(Strip(raw))
    IN  IF Len(text) > 0 THEN text ELSE None

_solve_captcha(raw) ==
    LET text == UpperStr(Strip(raw))
    IN  IF Len(text) = 4 /\ IsAlnum(text) THEN text ELSE None

\* Raw classifier outputs the model tries.
OcrSamples ==
    { <<"A", "b", "7", "7">>,
      <<" ", "a", "B", "7", "7", " ">>,
      <<"A", "b", "7">>,
      <<"A", "-", "7", "7">>,
      <<"A", " ", "7", "7">>,
      <<"A", "A", "b", "7", "7">>,
      << >> }

(***************************************************************************)
(* _extract_form_data: hidden fields, then the solved captcha; an empty    *)
(* dict when the captcha image is missing or the guess is unusable.        *)
(***************************************************************************)
EmptyForm == [f \in {} |-> None]

_extract_form_data(has_captcha_img, captcha_text) ==
    IF ~has_captcha_img \/ captcha_text = None
    THEN EmptyForm
    ELSE [f \in {"__VIEWSTATE", "txt_captcha", "ddl_subject", "btn_search"} |->
            IF f = "txt_captcha" THEN captcha_text
            ELSE IF f = "btn_search" THEN <<"Search">>
            ELSE IF f = "__VIEWSTATE" THEN <<"vs">>
            ELSE << >>]

\* form_data['ddl_subject'] = subject_code
SetField(form, name, value) ==
    [f \in DOMAIN form \cup {name} |-> IF f = name THEN value ELSE form[f]]

(***************************************************************************)
(* _validate_captcha_response over the features of the response page.      *)
(***************************************************************************)
Pages ==
    { p \in [ error_span : {"absent", "empty", "invalid_code", "other"},
              results_table : BOOLEAN,
              search_form : BOOLEAN,
              empty_row : {"absent", "no_record_found", "other_text"},
              course_links : BOOLEAN ] :
        ~p.results_table => (p.empty_row = "absent" /\ ~p.course_links) }

_validate_captcha_response_table_first(p) ==
    IF p.results_table /\ p.empty_row = "no_record_found"
    THEN [captcha_accepted |-> TRUE, has_results |-> FALSE, result_type |-> "no_records"]
    ELSE IF p.results_table /\ p.course_links
    THEN [captcha_accepted |-> TRUE, has_results |-> TRUE, result_type |-> "has_courses"]
    ELSE IF p.error_span = "invalid_code"
    THEN [captcha_accepted |-> FALSE, has_results |-> FALSE, result_type |-> "captcha_failed"]
    ELSE IF p.error_span = "other"
    THEN [captcha_accepted |-> FALSE, has_results |-> FALSE, result_type |-> "server_error"]
    ELSE IF ~p.results_table
    THEN IF p.search_form
         THEN [captcha_accepted |-> FALSE, has_results |-> FALSE,
               result_type |-> "captcha_failed_no_table"]
         ELSE [captcha_accepted |-> TRUE, has_results |-> FALSE,
               result_type |-> "unknown_error"]
    ELSE [captcha_accepted |-> TRUE, has_results |-> FALSE, result_type |-> "empty_unclear"]

_validate_captcha_response(p) ==
    IF p.error_span = "invalid_code"
    THEN [captcha_accepted |-> FALSE, has_results |-> FALSE, result_type |-> "captcha_failed"]
    ELSE IF p.error_span = "other"
    THEN [captcha_accepted |-> FALSE, has_results |-> FALSE, result_type |-> "server_error"]
    ELSE IF ~p.results_table
    THEN IF p.search_form
         THEN [captcha_accepted |-> FALSE, has_results |-> FALSE,
               result_type |-> "captcha_failed_no_table"]
         ELSE [captcha_accepted |-> TRUE, has_results |-> FALSE,
               result_type |-> "unknown_error"]
    ELSE IF p.empty_row = "no_record_found"
    THEN [captcha_accepted |-> TRUE, has_results |-> FALSE, result_type |-> "no_records"]
    ELSE IF p.course_links
    THEN [captcha_accepted |-> TRUE, has_results |-> TRUE, result_type |-> "has_courses"]
    ELSE [captcha_accepted |-> TRUE, has_results |-> FALSE, result_type |-> "empty_unclear"]

(***************************************************************************)
(* _parse_course_results: the listings a page can yield.  Rows are parsed  *)
(* only from a results table with course links.                            *)
(***************************************************************************)
CourseRows == <<"1000", "2000", "3000", "4000">>

AllListings ==
    { SubSeq(CourseRows, 1, n) : n \in 0..MaxCourses }

Listings(p) ==
    IF p.results_table /\ p.course_links THEN AllListings ELSE { << >> }

(***************************************************************************)
(* Progress document.                                                      *)
(***************************************************************************)
NoRecord ==
    [status |-> "none", estimated_courses |-> 0, courses_scraped |-> 0,
     completed_courses |-> << >>, retry_count |-> 0]

CountStatus(recs, st) == Cardinality({s \in Subjects : recs[s].status = st})

\* The progress file: absent, cut short by an unfinished write, or a complete
\* JSON document.  Only a complete document parses.
EmptyLog ==
    [total_subjects |-> 0, completed |-> 0, failed |-> 0, subjects |-> [s \in Subjects |-> NoRecord]]

AbsentFile == [state |-> "absent", log |-> EmptyLog]
PartialFile == [state |-> "partial", log |-> EmptyLog]
CompleteFile(data) == [state |-> "complete", log |-> data]

\* json.dump(self.progress_data, f)
DumpedProgress(data) == CompleteFile(data)

_load_progress(file) ==
    [ total_subjects |-> 0,
      completed |-> 0,
      failed |-> 0,
      subjects |-> IF file.state = "complete"
                   THEN file.log.subjects
                   ELSE [s \in Subjects |-> NoRecord] ]

start_subject_fresh_count(data, s, estimated) ==
    [data EXCEPT !.subjects[s] =
        [status |-> "in_progress", estimated_courses |-> estimated,
         courses_scraped |-> 0, completed_courses |-> << >>,
         retry_count |-> 0]]

start_subject(data, s, estimated) ==
    [data EXCEPT !.subjects[s] =
        [status |-> "in_progress", estimated_courses |-> estimated,
         courses_scraped |-> 0, completed_courses |-> << >>,
         retry_count |-> data.subjects[s].retry_count]]

InSeq(x, sq) == \E k \in 1..Len(sq) : sq[k] = x

update_course_progress_appends(data, s, course_code, total) ==
    IF data.subjects[s].status = "in_progress"
    THEN [data EXCEPT !.subjects[s] =
            [@ EXCEPT !.courses_scraped = total,
                      !.completed_courses = Append(@, course_code)]]
    ELSE data

update_course_progress(data, s, course_code, total) ==
    IF data.subjects[s].status = "in_progress"
    THEN [data EXCEPT !.subjects[s] =
            [@ EXCEPT !.courses_scraped = total,
                      !.completed_courses =
                          IF InSeq(course_code, @) THEN @ ELSE Append(@, course_code)]]
    ELSE data

complete_subject(data, s, courses_count) ==
    LET recs == [data.subjects EXCEPT ![s] =
                    [status |-> "completed", estimated_courses |-> 0,
                     courses_scraped |-> courses_count, completed_courses |-> << >>,
                     retry_count |-> data.subjects[s].retry_count]]
    IN  [data EXCEPT !.subjects = recs, !.completed = CountStatus(recs, "completed")]

fail_subject_keeps_status(data, s) ==
    [data EXCEPT !.subjects[s].retry_count = @ + 1]

fail_subject(data, s) ==
    LET recs == [data.subjects EXCEPT ![s] =
                    [status |-> "failed", estimated_courses |-> 0,
                     courses_scraped |-> data.subjects[s].courses_scraped,
                     completed_courses |-> << >>,
                     retry_count |-> data.subjects[s].retry_count + 1]]
    IN  [data EXCEPT !.subjects = recs, !.failed = CountStatus(recs, "failed")]

\* [subject for subject, data in subjects.items()
\*  if data.get("status") == "failed"]
get_failed_subjects(data) == {s \in Subjects : data.subjects[s].status = "failed"}

should_save_periodic_progress(t, last_save_time, interval_seconds) ==
    t - last_save_time >= interval_seconds

SavesProgress_not_on_complete(op) ==
    op \in {"start_subject", "fail_subject", "save_periodic_progress"}

\* Which tracker operations end with a call of _save_progress.
SavesProgress(op) ==
    op \in {"start_subject", "complete_subject", "fail_subject", "save_periodic_progress"}

(***************************************************************************)
(* Per-subject output documents.                                           *)
(***************************************************************************)
\* A document holds the metadata block and the course list.  The scraped_at
\* stamp of the metadata is left out, so two writes of the same course list
\* give equal documents here.
AbsentDoc == [state |-> "absent", subject |-> 0, courses |-> << >>]
PartialDoc == [state |-> "partial", subject |-> 0, courses |-> << >>]
SubjectDoc(s, cs) == [state |-> "complete", subject |-> s, courses |-> cs]

ProcessesSubject_skip_started(rec) == rec.status \notin {"completed", "in_progress"}

\* The loop of scrape_all_subjects visits every subject of the list, whatever
\* its record says.
ProcessesSubject(rec) == TRUE

InRange_one_more(a) == a <= max_retries

\* for attempt in range(self.config.max_retries)
InRange(a) == a < max_retries

ReturnsFromLoop_only_empty(result_type) == result_type = "no_records"

ReturnsFromLoop_provisional(result_type) ==
    result_type \in {"no_records", "has_courses", "unknown_error", "empty_unclear"}

\* scrape_subject leaves its loop early only on these result types.
ReturnsFromLoop(result_type) == result_type \in {"no_records", "has_courses"}

(***************************************************************************)
(* Functions without state, each applied once to an argument drawn from a  *)
(* bounded set.  Strings are sequences of characters.                      *)
(***************************************************************************)
Strings(alphabet, n) == UNION {[1..m -> alphabet] : m \in 0..n}

(***************************************************************************)
(* clean_class_attributes (src/data_utils.py).                             *)
(***************************************************************************)
AttrChars == {"a", "b", " ", "\n"}

\* str.split('\n'): cur is the piece being read.
RECURSIVE SplitLines(_, _)
SplitLines(s, cur) ==
    IF s = << >> THEN << cur >>
    ELSE IF Head(s) = "\n" THEN << cur >> \o SplitLines(Tail(s), << >>)
         ELSE SplitLines(Tail(s), Append(cur, Head(s)))

\* [line.strip() for line in text.split('\n') if line.strip()]
RECURSIVE StrippedLines(_)
StrippedLines(lines) ==
    IF lines = << >> THEN << >>
    ELSE (IF Strip(Head(lines)) # << >> THEN << Strip(Head(lines)) >> ELSE << >>)
             \o StrippedLines(Tail(lines))

\* '\n'.join(lines)
RECURSIVE JoinLines(_)
JoinLines(lines) ==
    IF lines = << >> THEN << >>
    ELSE IF Len(lines) = 1 THEN lines[1]
         ELSE lines[1] \o << "\n" >> \o JoinLines(Tail(lines))

RECURSIVE cleaned_lines_unique(_, _)
cleaned_lines_unique(class_lines, course_lines) ==
    IF class_lines = << >> THEN << >>
    ELSE LET rest == cleaned_lines_unique(Tail(class_lines), course_lines)
         IN  IF InSeq(Head(class_lines), course_lines) \/ InSeq(Head(class_lines), rest)
             THEN rest
             ELSE << Head(class_lines) >> \o rest

\* [line for line in class_lines if line not in course_lines]
RECURSIVE cleaned_lines(_, _)
cleaned_lines(class_lines, course_lines) ==
    IF class_lines = << >> THEN << >>
    ELSE (IF InSeq(Head(class_lines), course_lines)
          THEN << >> ELSE << Head(class_lines) >>)
             \o cleaned_lines(Tail(class_lines), course_lines)

clean_class_attributes(class_attrs, course_attrs) ==
    IF class_attrs = << >> \/ course_attrs = << >>
    THEN class_attrs
    ELSE JoinLines(cleaned_lines(StrippedLines(SplitLines(class_attrs, << >>)),
                                 StrippedLines(SplitLines(course_attrs, << >>))))

(***************************************************************************)
(* parse_time_string (src/analyze_course_data.py).  A time string is "",   *)
(* "TBA" or days followed by two clock times, each an hour of one or two   *)
(* digits, a colon, a minute of two digits and possibly AM or PM, with or  *)
(* without a dash between them.                                            *)
(***************************************************************************)
Hours == {0, 9, 12, 13, 25}

Minutes == {0, 30, 75}

Periods == {"", "AM", "PM", "pm"}

ClockTimes == [hour : Hours, min : Minutes, period : Periods]

ZeroClock == [hour |-> 0, min |-> 0, period |-> ""]

TimeStrings ==
    {[text |-> x, dash |-> FALSE, start |-> ZeroClock, end |-> ZeroClock] :
        x \in {"", "TBA"}}
        \cup [text : {"range"}, dash : BOOLEAN, start : ClockTimes, end : ClockTimes]

Sentinel == << -1, -1, -1, -1 >>

UpperPeriod(p) == IF p = "pm" THEN "PM" ELSE p

\* Convert to 24-hour format
To24(hour, period) ==
    IF period = "PM" /\ hour # 12 THEN hour + 12
    ELSE IF period = "AM" /\ hour = 12 THEN 0 ELSE hour

\* (\d{1,2}):(\d{2})(AM|PM)\s*-\s*(\d{1,2}):(\d{2})(AM|PM), re.IGNORECASE
MatchesAmPm(time_str) ==
    /\ time_str.text = "range"
    /\ time_str.dash
    /\ time_str.start.period # ""
    /\ time_str.end.period # ""

\* (\d{1,2}):(\d{2})\s*-\s*(\d{1,2}):(\d{2}), found anywhere in the string:
\* the dash follows the first minute, what follows the second is not read.
Matches24(time_str) ==
    /\ time_str.text = "range"
    /\ time_str.dash
    /\ time_str.start.period = ""

parse_time_string(time_str) ==
    IF time_str.text \in {"", "TBA"} THEN Sentinel
    ELSE IF MatchesAmPm(time_str)
         THEN << To24(time_str.start.hour, UpperPeriod(time_str.start.period)),
                 time_str.start.min,
                 To24(time_str.end.hour, UpperPeriod(time_str.end.period)),
                 time_str.end.min >>
         ELSE IF Matches24(time_str)
              THEN << time_str.start.hour, time_str.start.min,
                      time_str.end.hour, time_str.end.min >>
              ELSE Sentinel

(***************************************************************************)
(* _parse_class_availability: the status from the texts of the spans       *)
(* uc_class_lbl_available_seat and uc_class_lbl_wait_tot ("" when the      *)
(* span is missing).                                                       *)
(***************************************************************************)
CountChars == {"0", "3", "-", "x"}

DigitValue(c) == IF c = "3" THEN 3 ELSE 0

IsDigits(s) == s # << >> /\ \A k \in 1..Len(s) : s[k] \in {"0", "3"}

\* int(text) accepts an optional sign followed by digits.
IntAccepts(s) ==
    \/ IsDigits(s)
    \/ s # << >> /\ Head(s) = "-" /\ IsDigits(Tail(s))

RECURSIVE DigitsValue(_, _)
DigitsValue(s, acc) ==
    IF s = << >> THEN acc ELSE DigitsValue(Tail(s), 10 * acc + DigitValue(Head(s)))

IntOf(s) == IF Head(s) = "-" THEN 0 - DigitsValue(Tail(s), 0) ELSE DigitsValue(s, 0)

\* The exception of int(text).
ValueError == << >>

CountOf_strict(text) ==
    IF IntAccepts(text) THEN << IntOf(text) >> ELSE ValueError

\* int(text) if text else 0
CountOf(text) ==
    IF text = << >> THEN << 0 >>
    ELSE IF IntAccepts(text) THEN << IntOf(text) >> ELSE ValueError

\* The status _parse_class_availability stores: except (ValueError,
\* TypeError) leaves 'Unknown'.
_parse_class_availability(available_text, waitlist_text) ==
    LET available_seats == CountOf(available_text)
        waitlist_total == CountOf(waitlist_text)
    IN  IF available_seats = ValueError \/ waitlist_total = ValueError
        THEN "Unknown"
        ELSE IF available_seats[1] > 0 THEN "Open"
             ELSE IF waitlist_total[1] > 0 THEN "Waitlisted"
                  ELSE "Closed"

(***************************************************************************)
(* The test on a row of a schedule table in _parse_schedule_from_html and  *)
(* in _parse_schedule_with_enrollment_details.                             *)
(***************************************************************************)
LabelChars == {"L", "1", "(", ")"}

TableRows ==
    [cells : 1..3, link : BOOLEAN, section : Strings(LabelChars, MaxLabelLen),
     details : BOOLEAN]

LooksLikeSection_open_only(section) == section # << >> /\ InSeq("(", section)

\* if not section or '(' not in section or ')' not in section: continue
LooksLikeSection(section) ==
    section # << >> /\ InSeq("(", section) /\ InSeq(")", section)

\* Whether the row ends up in sections_data.  details tells whether
\* _get_section_enrollment_details returned the parsed class page.
KeepsRow(enrollment, row) ==
    IF enrollment
    THEN row.cells >= 2 /\ row.link /\ LooksLikeSection(row.section) /\ row.details
    ELSE row.cells >= 3 /\ LooksLikeSection(row.section)

(***************************************************************************)
(* html_to_clean_markdown (src/data_utils.py) and _html_to_markdown.  The  *)
(* html is "" , blank or a text; markdown tells how the markdown steps     *)
(* (import markdownify, clean_word_html, markdownify, whitespace and table *)
(* header clean-up) end, plain how normalize_markdown_whitespace ends on   *)
(* the plain text of the fallback.  The plain-text extraction itself       *)
(* (BeautifulSoup get_text on a str) does not raise.                       *)
(***************************************************************************)
HtmlContents == {"", "blank", "text"}

MarkdownOutcomes == {"ok", "ImportError", "Exception"}

PlainOutcomes == {"ok", "Exception"}

Raised == [raised |-> TRUE, text |-> "none", is_markdown |-> FALSE]

Returns(text, is_markdown) == [raised |-> FALSE, text |-> text, is_markdown |-> is_markdown]

html_to_clean_markdown(html_content, markdown, plain) ==
    IF html_content \in {"", "blank"} THEN Returns("", TRUE)
    ELSE IF markdown = "ok" THEN Returns("markdown", TRUE)
         ELSE IF plain = "ok" THEN Returns("normalized plain text", FALSE)
              ELSE Raised

_html_to_markdown_uncaught(html_content, markdown, plain) ==
    IF html_content = "" THEN Returns("", TRUE)
    ELSE html_to_clean_markdown(html_content, markdown, plain)

\* except Exception: return clean_html_text(html_content)
_html_to_markdown(html_content, markdown, plain) ==
    IF html_content = "" THEN Returns("", TRUE)
    ELSE LET converted == html_to_clean_markdown(html_content, markdown, plain)
         IN  IF converted.raised
             THEN Returns("plain text", FALSE)
             ELSE converted

(***************************************************************************)
(* _scrape_course_outcome and _parse_course_outcome_content.  A response   *)
(* of the Course Outcome postback is named by the outcome elements it      *)
(* holds (the table uc_course_outcome_gv_ast and the five spans); a        *)
(* system-error page holds none.  The log is the sequence of the records   *)
(* written to self.logger.                                                 *)
(***************************************************************************)
OutcomeFields ==
    {"assessment_types", "learning_outcomes", "course_syllabus",
     "feedback_evaluation", "required_readings", "recommended_readings"}

\* The outcome fields of a Course: "" is the default of the dataclass.
CourseOutcomes == [OutcomeFields -> {"", "old"}]

OutcomeResponses ==
    {[raises |-> TRUE, elements |-> {}]}
        \cup [raises : {FALSE}, elements : SUBSET OutcomeFields]

Logged(level, message) == [level |-> level, message |-> message]

\* Every field is assigned only if its element is found.
_parse_course_outcome_content(elements, course) ==
    [f \in OutcomeFields |-> IF f \in elements THEN "new" ELSE course[f]]

_scrape_course_outcome(outcome_btn, response, course) ==
    IF ~outcome_btn
    THEN [requests |-> 0,
          log |-> << Logged("INFO", "No Course Outcome button found") >>,
          course |-> course]
    ELSE IF response.raises
         THEN [requests |-> 1,
               log |-> << Logged("INFO", "Navigating to Course Outcome page"),
                          Logged("ERROR", "Error scraping Course Outcome") >>,
               course |-> course]
         ELSE [requests |-> 1,
               log |-> << Logged("INFO", "Navigating to Course Outcome page"),
                          Logged("INFO", "Course Outcome parsed") >>,
               course |-> _parse_course_outcome_content(response.elements, course)]

(***************************************************************************)
(* _scrape_term_details as one call.  selected is the value of the option  *)
(* marked selected in the term selector of the given page ("none": no      *)
(* option is marked, "no_select": the page has no selector); button is the *)
(* state of input#uc_course_btn_class_section on the given page and        *)
(* button_after its state on the response of the term change; raises       *)
(* names the request that _robust_request gives up on; links is the number *)
(* of section rows of the parsed page that carry a link.  The result holds *)
(* the requests sent, in order, and the page that is parsed ("none" when   *)
(* None is returned).                                                      *)
(***************************************************************************)
\* Option values of a term selector; "" is an option whose value or text is
\* empty.
TermCodes == {"", "2390", "2400"}

SelectedOptions == (TermCodes \ {""}) \cup {"none", "no_select"}

ButtonStates == {"absent", "disabled", "enabled"}

TermDetailCalls ==
    [fn : {"_scrape_term_details"}, selected : SelectedOptions,
     term_code : TermCodes \ {""}, button : ButtonStates,
     button_after : ButtonStates,
     raises : {"none", "term_change", "show_sections"},
     get_enrollment_details : BOOLEAN, links : 0..MaxRows]

is_current_term_never(selected, term_code) == FALSE

\* current_selected and current_selected.get('value') == term_code
is_current_term(selected, term_code) == selected = term_code

TermOutcome(requests, parsed) == [requests |-> requests, parsed |-> parsed]

\* _create_term_info: one class page is requested for every linked row when
\* the enrollment details are wanted.
ParsesTermInfo(requests, page, enrollment, links) ==
    TermOutcome(requests \o (IF enrollment
                             THEN [k \in 1..links |-> "class_details"]
                             ELSE << >>),
                page)

\* From the check of the 'Show sections' button on.
ShowSectionsStep(requests, page, btn, c) ==
    IF btn = "enabled"
    THEN IF c.raises = "show_sections"
         THEN TermOutcome(Append(requests, "show_sections"), "none")
         ELSE ParsesTermInfo(Append(requests, "show_sections"), "show_sections",
                             c.get_enrollment_details, c.links)
    ELSE ParsesTermInfo(requests, page, c.get_enrollment_details, c.links)

_scrape_term_details(c) ==
    IF c.selected = "no_select" THEN TermOutcome(<< >>, "none")
    ELSE IF is_current_term(c.selected, c.term_code)
         THEN ShowSectionsStep(<< >>, "given", c.button, c)
         ELSE IF c.raises = "term_change"
              THEN TermOutcome(<< "term_change" >>, "none")
              ELSE ShowSectionsStep(<< "term_change" >>, "term_change",
                                    c.button_after, c)

(***************************************************************************)
(* _parse_schedule_from_html over the rows that find_all returns for a     *)
(* schedule table, in document order.  A row has a number of cells, the    *)
(* text of its first cell and the rows of the table nested in its third    *)
(* cell; a nested row yields a meeting when it has four cells and both its *)
(* days/times and its dates are not empty.  A meeting is named by the row  *)
(* and the nested row it comes from.                                       *)
(***************************************************************************)
SectionLabels == {<< "L", "(", ")" >>, << "1", "(", ")" >>, << "L", "(" >>}

MeetRows == {<< >>, << TRUE >>, << FALSE, TRUE >>, << TRUE, TRUE >>}

GroupedRows == [cells : {2, 3}, section : SectionLabels, meet_rows : MeetRows]

GroupedTables == UNION {[1..n -> GroupedRows] : n \in 0..MaxGroupedRows}

\* The meetings of the nested rows m.. of row k.
RECURSIVE MeetingsOf(_, _, _)
MeetingsOf(meet_rows, k, m) ==
    IF m > Len(meet_rows) THEN << >>
    ELSE (IF meet_rows[m] THEN << [row |-> k, meet_row |-> m] >> ELSE << >>)
             \o MeetingsOf(meet_rows, k, m + 1)

AddMeetings_replace(meetings, new) == new

\* sections_data[section]['meetings'].append(...), once per nested row
AddMeetings(meetings, new) == meetings \o new

\* if section not in sections_data: sections_data[section] = {...}
InitSection(sections, section) ==
    IF \E j \in DOMAIN sections : sections[j].section = section
    THEN sections
    ELSE Append(sections, [section |-> section, meetings |-> << >>])

\* The loop over the rows from row k on; sections is sections_data, in the
\* insertion order of the dict.
RECURSIVE ParseScheduleRows(_, _, _)
ParseScheduleRows(rows, k, sections) ==
    IF k > Len(rows) THEN sections
    ELSE IF rows[k].cells < 3 \/ ~LooksLikeSection(rows[k].section)
         THEN ParseScheduleRows(rows, k + 1, sections)
         ELSE LET seen == InitSection(sections, rows[k].section)
                  new == MeetingsOf(rows[k].meet_rows, k, 1)
              IN  ParseScheduleRows(rows, k + 1,
                      [j \in DOMAIN seen |->
                          IF seen[j].section = rows[k].section
                          THEN [seen[j] EXCEPT !.meetings = AddMeetings(@, new)]
                          ELSE seen[j]])

\* schedule_data = list(sections_data.values())
ScheduleData(rows) == ParseScheduleRows(rows, 1, << >>)

(***************************************************************************)
(* One call of update_course_progress on a tracker whose record of subject *)
(* 1 has any status and a list of completed courses as start_subject and   *)
(* earlier calls leave it: without a repeated code.                        *)
(***************************************************************************)
CourseCodes == {CourseRows[k] : k \in 1..(MaxCourses + 1)}

CompletedLists ==
    {l \in UNION {[1..n -> CourseCodes] : n \in 0..MaxCourses} :
        \A a, b \in DOMAIN l : l[a] = l[b] => a = b}

TrackedData(status, completed_courses) ==
    [EmptyLog EXCEPT !.subjects[1] =
        [NoRecord EXCEPT !.status = status,
                         !.courses_scraped = Len(completed_courses),
                         !.completed_courses = completed_courses]]

Calls ==
    [fn : {"update_course_progress"},
     status : {"none", "in_progress", "completed", "failed"},
     completed_courses : CompletedLists, s : Subjects,
     course_code : CourseCodes, total : 0..MaxCourses]
        \cup
    [fn : {"_parse_schedule_from_html"}, rows : GroupedTables]
        \cup
    TermDetailCalls
        \cup
    [fn : {"_scrape_course_outcome"}, outcome_btn : BOOLEAN,
     response : OutcomeResponses, course : CourseOutcomes]
        \cup
    [fn : {"_html_to_markdown"}, html_content : HtmlContents,
     markdown : MarkdownOutcomes, plain : PlainOutcomes]
        \cup
    [fn : {"clean_class_attributes"},
     class_attrs : Strings(AttrChars, MaxClassAttrs),
     course_attrs : Strings(AttrChars, MaxCourseAttrs)]
        \cup [fn : {"parse_time_string"}, time_str : TimeStrings]
        \cup [fn : {"_parse_class_availability"},
              available_seats : Strings(CountChars, MaxCountLen),
              waitlist_total : Strings(CountChars, MaxCountLen)]
        \cup [fn : {"parse_schedule"}, enrollment : BOOLEAN, row : TableRows]

(***************************************************************************)
(* The detail loop of scrape_subject: for every course of the listing,     *)
(* get_course_details posts the course link and                            *)
(* _get_course_details_with_term_selection walks the course outcome page,  *)
(* the terms of the selector, the section list of each term and the class  *)
(* page of each section.  A page is named by its kind and by the course,   *)
(* term and row it was asked for; the hidden inputs of a page are the      *)
(* state tokens of exactly that response.                                  *)
(***************************************************************************)
PageOf(kind, c, t, r) == [kind |-> kind, course |-> c, term |-> t, row |-> r]

\* response.text of the accepted search: the listing of the subject.
ListingPage == PageOf("listing", 0, 0, 0)

NoPost ==
    [kind |-> "none", course |-> 0, term |-> 0, row |-> 0,
     echoed |-> ListingPage, prev |-> ListingPage]

OptionLists == UNION {[1..n -> TermCodes] : n \in 0..MaxTerms}

\* select#uc_course_ddl_class_term of a detail page, if it has one.
Selectors ==
    {[present |-> FALSE, options |-> << >>]}
        \cup {[present |-> TRUE, options |-> o] : o \in OptionLists}

\* Rows of a schedule table: label_ok is the result of the test on the
\* section label, link tells whether the first cell holds an anchor.
ScheduleRows == [label_ok : BOOLEAN, link : BOOLEAN]

Schedules == UNION {[1..n -> ScheduleRows] : n \in 0..MaxRows}

\* ScrapingConfig.for_production
get_enrollment_details == TRUE

get_course_outcome == TRUE

\* available_terms: the options with a value and a text, in document order.
RECURSIVE AvailableTerms(_)
AvailableTerms(options) ==
    IF options = << >> THEN << >>
    ELSE (IF Head(options) # "" THEN << Head(options) >> ELSE << >>)
             \o AvailableTerms(Tail(options))

\* _parse_schedule_from_html from row k on: a row is kept when its label
\* passes the test; no postback is made and no availability is read.
RECURSIVE _parse_schedule_from_html(_, _)
_parse_schedule_from_html(schedule_rows, k) ==
    IF k > Len(schedule_rows) THEN << >>
    ELSE (IF schedule_rows[k].label_ok
          THEN << [row |-> k, drilled |-> FALSE, availability |-> FALSE] >>
          ELSE << >>)
             \o _parse_schedule_from_html(schedule_rows, k + 1)

_create_term_info_always(schedule_data, term_code, term_name) ==
    << [term_code |-> term_code, term_name |-> term_name, schedule |-> schedule_data] >>

\* _create_term_info after the schedule was parsed: None (the empty
\* sequence) when there is neither a term nor a section.
_create_term_info(schedule_data, term_code, term_name) ==
    IF term_code # "" \/ term_name # "Unknown Term" \/ schedule_data # << >>
    THEN << [term_code |-> term_code, term_name |-> term_name,
             schedule |-> schedule_data] >>
    ELSE << >>

\* _parse_current_term_info calls _create_term_info(html): the arguments
\* take their defaults, get_enrollment_details = False among them.
_parse_current_term_info(schedule_rows) ==
    _create_term_info(_parse_schedule_from_html(schedule_rows, 1), "", "Unknown Term")

\* The page whose hidden inputs a postback copies into its form.
PostbackSource_current(kind, listing_html, course_html, current_html) ==
    IF kind = "detail" THEN listing_html ELSE current_html

PostbackSource(kind, listing_html, course_html, current_html) ==
    CASE kind = "detail" -> listing_html
      [] kind \in {"outcome", "term_change"} -> course_html
      [] OTHER -> current_html

\* Every failure of the walk is caught where it happens: except Exception in
\* get_course_details, _scrape_course_outcome, the loop over the terms,
\* _scrape_term_details and _get_section_enrollment_details.
CaughtLocally_not_drilldown(kind) == kind # "drill"

CaughtLocally(kind) == TRUE

Course(c) ==
    [course_code |-> c, detail |-> FALSE, selector |-> "unknown",
     listed |-> << >>, terms |-> << >>, omitted |-> {}, lost_terms |-> 0]


VARIABLES
    pc,                 \* position of the run
    ret_pc,             \* where _save_progress returns to
    run,                \* number of restarts so far
    i,                  \* index of the current subject in the list
    completed_subjects, \* result lists of the run
    failed_subjects,
    requested,          \* subjects contacted over the network in this run
    loaded,             \* subject records as loaded at the start of the run
    crashed,            \* the previous run was ended by an interrupt
    docs_at_start,      \* output documents as they were when the run started
    attempt,            \* loop variable of scrape_subject
    captcha_text,       \* result of _solve_captcha in this attempt
    form_data,          \* search form of this attempt
    validation,         \* result_type of the last classified response
    posts,              \* search forms posted by this call of scrape_subject
    rejected_only,      \* no attempt of this call was accepted so far
    ret_kind,           \* how the call of scrape_subject returned
    courses,            \* listing of the current subject
    ci,                 \* number of courses of the listing already detailed
    last_progress_save, \* time of the last periodic save
    now,                \* clock: ticks since the detail loop of the attempt began
    done_at,            \* completion time of each detailed course
    saved_file,         \* result of _save_subject_immediately
    progress_data,      \* tracker state in memory
    tracker_op,         \* tracker operation called last
    save_result,        \* how the _save_progress of that operation ended
    progress_file,      \* progress document on disk
    docs,               \* output document of each subject on disk
    last_saved,         \* subjects in the progress file when the last save ended
    request_pc,         \* position of a call of _robust_request
    request_attempt,    \* its local counter attempt
    wait_time,          \* its last wait_time (seconds)
    request_error,      \* the exception of its last try, "none" if it returned
    status_code,        \* the HTTP status of its last response, 0 if none
    requests_sent,      \* HTTP requests sent by the call
    sleeps,             \* backoff sleeps of the call
    page,               \* a response page handed to _validate_captcha_response
    verdict,            \* the dict it returned for that page
    dpc,                \* position of the detail loop
    course_i,           \* courses of the listing already handled
    detailed_courses,   \* result list of the detail loop
    base_course,        \* the course being detailed
    available_terms,    \* term codes read from its selector
    current_selected,   \* value of the selected option of the detail page
    term_i,             \* index of the term being scraped
    all_term_info,      \* TermInfo collected for the course
    html,               \* the page in hand in _scrape_term_details
    detail_html,        \* the detail page of the course
    last_response,      \* the page returned by the last round trip
    last_post,          \* the last postback: its kind and the page it echoed
    schedule_rows,      \* rows of the schedule table being parsed
    row_i,              \* rows already handled
    sections_data,      \* sections kept so far
    call,               \* a function checked on its own and its arguments
    returned,           \* whether that call has returned
    result              \* what it returned

loopVars == << run, i, completed_subjects, failed_subjects, requested, loaded,
              crashed, docs_at_start >>
searchVars == << attempt, captcha_text, form_data, validation, posts, rejected_only,
                 ret_kind >>
detailVars == << courses, ci, last_progress_save, now, done_at >>
trackerVars == << progress_data, tracker_op, save_result >>
diskVars == << progress_file, docs, last_saved >>

requestVars == << request_pc, request_attempt, wait_time, request_error,
                 status_code, requests_sent, sleeps >>

validateVars == << page, verdict >>

\* Variables of the separately checked functions; the run of the scraper
\* leaves them alone.
traverseVars == << dpc, course_i, detailed_courses, base_course, available_terms,
                  current_selected, term_i, all_term_info, html, detail_html,
                  last_response, last_post, schedule_rows, row_i, sections_data >>

pureVars == << call, returned, result >>

auxVars == << requestVars, validateVars, traverseVars, pureVars >>

vars == << pc, ret_pc, saved_file, loopVars, searchVars, detailVars, trackerVars,
           diskVars, auxVars >>

BlankPage ==
    [error_span |-> "absent", results_table |-> FALSE, search_form |-> FALSE,
     empty_row |-> "absent", course_links |-> FALSE]

NoVerdict == [captcha_accepted |-> FALSE, has_results |-> FALSE, result_type |-> "none"]

subject_ahead == subjects[IF i < Len(subjects) THEN i + 1 ELSE i]

\* for i, subject in enumerate(subjects)
subject == subjects[i]

RecordedSubjects(file) ==
    IF file.state = "complete"
    THEN {s \in Subjects : file.log.subjects[s].status # "none"}
    ELSE {}

InitRun ==
    /\ pc = "next_subject"
    /\ ret_pc = "none"
    /\ run = 0
    /\ i = 0
    /\ completed_subjects = << >>
    /\ failed_subjects = << >>
    /\ requested = [s \in Subjects |-> FALSE]
    /\ loaded = [s \in Subjects |-> NoRecord]
    /\ crashed = FALSE
    /\ docs_at_start = [s \in Subjects |-> AbsentDoc]
    /\ attempt = 0
    /\ captcha_text = None
    /\ form_data = EmptyForm
    /\ validation = "none"
    /\ posts = 0
    /\ rejected_only = TRUE
    /\ ret_kind = "none"
    /\ courses = << >>
    /\ ci = 0
    /\ last_progress_save = 0
    /\ now = 0
    /\ done_at = << >>
    /\ saved_file = FALSE
    /\ progress_data = [_load_progress(AbsentFile) EXCEPT !.total_subjects = Len(subjects)]
    /\ tracker_op = "none"
    /\ save_result = "none"
    /\ progress_file = AbsentFile
    /\ docs = [s \in Subjects |-> AbsentDoc]
    /\ last_saved = {}
    /\ request_pc = "send"
    /\ request_attempt = 0
    /\ wait_time = 0
    /\ request_error = "none"
    /\ status_code = 0
    /\ requests_sent = 0
    /\ sleeps = 0

InitTraverse ==
    /\ dpc = "listing"
    /\ course_i = 0
    /\ detailed_courses = << >>
    /\ base_course = Course(0)
    /\ available_terms = << >>
    /\ current_selected = ""
    /\ term_i = 0
    /\ all_term_info = << >>
    /\ html = ListingPage
    /\ detail_html = ListingPage
    /\ last_response = ListingPage
    /\ last_post = NoPost
    /\ schedule_rows = << >>
    /\ row_i = 0
    /\ sections_data = << >>

NoCall ==
    /\ call = [fn |-> "none"]
    /\ returned = FALSE
    /\ result = << >>

Init ==
    /\ InitRun
    /\ page = BlankPage
    /\ verdict = NoVerdict
    /\ InitTraverse
    /\ NoCall

(***************************************************************************)
(* scrape_all_subjects: the loop over the subject list.                    *)
(***************************************************************************)
NextSubject ==
    /\ pc = "next_subject"
    /\ IF i < Len(subjects)
       THEN /\ i' = i + 1
            /\ pc' = IF ProcessesSubject(progress_data.subjects[subjects[i + 1]])
                     THEN "attempt" ELSE "next_subject"
       ELSE /\ i' = i
            /\ pc' = "done"
    /\ tracker_op' = "none"
    /\ save_result' = "none"
    /\ UNCHANGED << ret_pc, saved_file, run, completed_subjects, failed_subjects,
                    requested, loaded, crashed, docs_at_start, searchVars, detailVars,
                    progress_data, diskVars >>
    /\ UNCHANGED auxVars

(***************************************************************************)
(* scrape_subject: one attempt fetches the search page, solves the captcha *)
(* and builds the form; the caller then sets ddl_subject.                  *)
(***************************************************************************)
GetSearchPage ==
    /\ pc = "attempt"
    /\ InRange(attempt)
    /\ \E has_captcha_img \in BOOLEAN, raw \in OcrSamples, ocr_raises \in BOOLEAN :
         LET text == IF has_captcha_img /\ ~ocr_raises THEN _solve_captcha(raw) ELSE None
         IN  /\ captcha_text' = text
             /\ form_data' = SetField(_extract_form_data(has_captcha_img, text),
                                      "ddl_subject", <<"subject">>)
    /\ requested' = [requested EXCEPT ![subject] = TRUE]
    /\ validation' = "none"
    /\ pc' = "post"
    /\ UNCHANGED << ret_pc, saved_file, run, i, completed_subjects, failed_subjects,
                    loaded, crashed, docs_at_start, attempt, posts, rejected_only, ret_kind,
                    detailVars, trackerVars, diskVars >>
    /\ UNCHANGED auxVars

\* except Exception: a request of the attempt raised (an HTTP error status
\* that _robust_request does not retry); the loop goes to the next attempt.
AttemptRaises ==
    /\ pc \in {"attempt", "post"}
    /\ InRange(attempt)
    /\ requested' = [requested EXCEPT ![subject] = TRUE]
    /\ posts' = IF pc = "post" THEN posts + 1 ELSE posts
    /\ validation' = "exception"
    /\ attempt' = attempt + 1
    /\ captcha_text' = None
    /\ form_data' = EmptyForm
    /\ pc' = "attempt"
    /\ UNCHANGED << ret_pc, saved_file, run, i, completed_subjects, failed_subjects,
                    loaded, crashed, docs_at_start, rejected_only, ret_kind, detailVars,
                    trackerVars, diskVars >>
    /\ UNCHANGED auxVars

\* POST of the search form, classification of the response, and on acceptance
\* the parse of the listing and start_subject.
SubmitSearch ==
    /\ pc = "post"
    /\ \E p \in Pages :
         LET v == _validate_captcha_response(p)
         IN  /\ validation' = v.result_type
             /\ IF ~v.captcha_accepted
                THEN /\ attempt' = attempt + 1
                     /\ pc' = "attempt"
                     /\ UNCHANGED << ret_pc, rejected_only, detailVars, trackerVars >>
                ELSE /\ \E listing \in Listings(p) :
                          /\ courses' = listing
                          /\ IF track_progress
                             THEN /\ progress_data' =
                                        start_subject(progress_data, subject, Len(listing))
                                  /\ tracker_op' = "start_subject"
                                  /\ save_result' = "none"
                                  /\ pc' = "save_progress_open"
                                  /\ ret_pc' = "details"
                             ELSE /\ pc' = "details"
                                  /\ UNCHANGED << trackerVars, ret_pc >>
                     /\ ci' = 0
                     /\ now' = 0
                     /\ last_progress_save' = 0
                     /\ done_at' = << >>
                     /\ rejected_only' = FALSE
                     /\ attempt' = attempt
    /\ posts' = posts + 1
    /\ captcha_text' = None
    /\ form_data' = EmptyForm
    /\ UNCHANGED << saved_file, loopVars, ret_kind, diskVars >>
    /\ UNCHANGED auxVars

\* One round trip of get_course_details (detail, term, section postbacks).
DetailRoundTrip ==
    /\ pc = "details"
    /\ get_details
    /\ ci < Len(courses)
    /\ now < MaxTime
    /\ now' = now + 1
    /\ UNCHANGED << pc, ret_pc, saved_file, loopVars, searchVars, courses, ci,
                    last_progress_save, done_at, trackerVars, diskVars >>
    /\ UNCHANGED auxVars

\* The course is appended to detailed_courses; update_course_progress records
\* it in memory; the periodic save runs when the interval has elapsed.
FinishCourse ==
    /\ pc = "details"
    /\ get_details
    /\ ci < Len(courses)
    /\ ci' = ci + 1
    /\ done_at' = Append(done_at, now)
    /\ IF track_progress
       THEN /\ progress_data' =
                  update_course_progress(progress_data, subject, courses[ci + 1], ci + 1)
            /\ save_result' = "none"
            /\ IF should_save_periodic_progress(now, last_progress_save,
                                                progress_update_interval)
               THEN /\ tracker_op' = "save_periodic_progress"
                    /\ last_progress_save' = now
               ELSE /\ tracker_op' = "update_course_progress"
                    /\ UNCHANGED last_progress_save
            /\ IF SavesProgress(tracker_op')
               THEN /\ pc' = "save_progress_open"
                    /\ ret_pc' = "details"
               ELSE UNCHANGED << pc, ret_pc >>
       ELSE UNCHANGED << trackerVars, last_progress_save, pc, ret_pc >>
    /\ UNCHANGED << saved_file, loopVars, searchVars, courses, now, diskVars >>
    /\ UNCHANGED auxVars

\* End of an accepted attempt: return on no_records / has_courses, otherwise
\* fall through to the next attempt.
EndAttempt ==
    /\ pc = "details"
    /\ ~get_details \/ ci = Len(courses)
    /\ IF ReturnsFromLoop(validation)
       THEN /\ courses' = IF validation = "no_records" THEN << >> ELSE courses
            /\ ret_kind' = validation
            /\ validation' = "none"
            /\ posts' = 0
            /\ pc' = "save_subject_open"
            /\ attempt' = attempt
       ELSE /\ attempt' = attempt + 1
            /\ courses' = << >>
            /\ pc' = "attempt"
            /\ UNCHANGED << validation, posts, ret_kind >>
    /\ ci' = 0
    /\ done_at' = << >>
    /\ last_progress_save' = 0
    /\ now' = 0
    /\ UNCHANGED << ret_pc, saved_file, loopVars, captcha_text, form_data,
                    rejected_only, trackerVars, diskVars >>
    /\ UNCHANGED auxVars

\* The attempts are used up: return [].
ReturnExhausted ==
    /\ pc = "attempt"
    /\ ~InRange(attempt)
    /\ courses' = << >>
    /\ ret_kind' = "exhausted"
    /\ validation' = "none"
    /\ posts' = 0
    /\ pc' = "save_subject_open"
    /\ UNCHANGED << ret_pc, saved_file, loopVars, attempt, captcha_text, form_data,
                    rejected_only, ci, last_progress_save, now, done_at,
                    trackerVars, diskVars >>
    /\ UNCHANGED auxVars

(***************************************************************************)
(* _save_subject_immediately: open(filename, 'w') then json.dump.          *)
(***************************************************************************)
SaveSubjectOpen ==
    /\ pc = "save_subject_open"
    /\ docs' = [docs EXCEPT ![subject] = PartialDoc]
    /\ pc' = "save_subject_dump"
    /\ UNCHANGED << ret_pc, saved_file, loopVars, searchVars, detailVars,
                    trackerVars, progress_file, last_saved >>
    /\ UNCHANGED auxVars

\* json.dump either completes the document or raises part-way (the exception
\* is caught and None returned).
SaveSubjectDump ==
    /\ pc = "save_subject_dump"
    /\ \E written \in BOOLEAN :
         IF written
         THEN /\ docs' = [docs EXCEPT ![subject] = SubjectDoc(subject, courses)]
              /\ saved_file' = TRUE
         ELSE /\ saved_file' = FALSE
              /\ UNCHANGED docs
    /\ pc' = "record"
    /\ UNCHANGED << ret_pc, loopVars, searchVars, detailVars, trackerVars,
                    progress_file, last_saved >>
    /\ UNCHANGED auxVars

\* scrape_all_subjects records the subject as completed when the save returned
\* a file name and as failed otherwise.
RecordResult ==
    /\ pc = "record"
    /\ IF saved_file
       THEN /\ completed_subjects' = Append(completed_subjects, subject)
            /\ progress_data' = complete_subject(progress_data, subject, Len(courses))
            /\ tracker_op' = "complete_subject"
            /\ UNCHANGED failed_subjects
       ELSE /\ failed_subjects' = Append(failed_subjects, subject)
            /\ progress_data' = fail_subject(progress_data, subject)
            /\ tracker_op' = "fail_subject"
            /\ UNCHANGED completed_subjects
    /\ save_result' = "none"
    /\ pc' = IF SavesProgress(tracker_op') THEN "save_progress_open" ELSE "next_subject"
    /\ ret_pc' = "next_subject"
    /\ saved_file' = FALSE
    /\ courses' = << >>
    /\ ret_kind' = "none"
    /\ rejected_only' = TRUE
    /\ attempt' = 0
    /\ UNCHANGED << run, i, requested, loaded, crashed, docs_at_start, captcha_text, form_data,
                    validation, posts, ci, last_progress_save, now, done_at,
                    diskVars >>
    /\ UNCHANGED auxVars

(***************************************************************************)
(* _save_progress: open(progress_file, 'w') then json.dump.  An exception  *)
(* is logged and swallowed.                                                *)
(***************************************************************************)
SaveProgressOpen ==
    /\ pc = "save_progress_open"
    /\ progress_file' = PartialFile
    /\ pc' = "save_progress_dump"
    /\ UNCHANGED << ret_pc, saved_file, loopVars, searchVars, detailVars,
                    trackerVars, docs, last_saved >>
    /\ UNCHANGED auxVars

SaveProgressDump_propagates ==
    /\ pc = "save_progress_dump"
    /\ \E written \in BOOLEAN :
         IF written
         THEN /\ progress_file' = DumpedProgress(progress_data)
              /\ save_result' = "ok"
              /\ pc' = ret_pc
         ELSE /\ save_result' = "error"
              /\ pc' = "stopped"
              /\ UNCHANGED progress_file
    /\ last_saved' = RecordedSubjects(progress_file')
    /\ UNCHANGED << ret_pc, saved_file, loopVars, searchVars, detailVars,
                    progress_data, tracker_op, docs >>
    /\ UNCHANGED auxVars

SaveProgressDump ==
    /\ pc = "save_progress_dump"
    /\ \E written \in BOOLEAN :
         IF written
         THEN /\ progress_file' = DumpedProgress(progress_data)
              /\ save_result' = "ok"
         ELSE /\ save_result' = "error"
              /\ UNCHANGED progress_file
    /\ last_saved' = RecordedSubjects(progress_file')
    /\ pc' = ret_pc
    /\ UNCHANGED << ret_pc, saved_file, loopVars, searchVars, detailVars,
                    progress_data, tracker_op, docs >>
    /\ UNCHANGED auxVars

(***************************************************************************)
(* An interrupt or kill ends the run where it stands: main catches         *)
(* KeyboardInterrupt and prints a message; nothing is written.             *)
(***************************************************************************)
Interrupt ==
    /\ pc \notin {"done", "stopped"}
    /\ pc' = "stopped"
    /\ UNCHANGED << ret_pc, saved_file, loopVars, searchVars, detailVars,
                    trackerVars, diskVars >>
    /\ UNCHANGED auxVars

(***************************************************************************)
(* A new process runs scrape_all_subjects over the same subject list: the  *)
(* tracker is created again from the progress file.                        *)
(***************************************************************************)
Restart ==
    /\ pc \in {"done", "stopped"}
    /\ run < MaxRestarts
    /\ run' = run + 1
    /\ crashed' = (pc = "stopped")
    /\ docs_at_start' = docs
    /\ progress_data' = [_load_progress(progress_file)
                            EXCEPT !.total_subjects = Len(subjects)]
    /\ loaded' = progress_data'.subjects
    /\ pc' = "next_subject"
    /\ ret_pc' = "none"
    /\ i' = 0
    /\ completed_subjects' = << >>
    /\ failed_subjects' = << >>
    /\ requested' = [s \in Subjects |-> FALSE]
    /\ attempt' = 0
    /\ captcha_text' = None
    /\ form_data' = EmptyForm
    /\ validation' = "none"
    /\ posts' = 0
    /\ rejected_only' = TRUE
    /\ ret_kind' = "none"
    /\ courses' = << >>
    /\ ci' = 0
    /\ last_progress_save' = 0
    /\ now' = 0
    /\ done_at' = << >>
    /\ saved_file' = FALSE
    /\ tracker_op' = "none"
    /\ save_result' = "none"
    /\ UNCHANGED diskVars
    /\ UNCHANGED auxVars

Next ==
    \/ NextSubject
    \/ GetSearchPage
    \/ AttemptRaises
    \/ SubmitSearch
    \/ DetailRoundTrip
    \/ FinishCourse
    \/ EndAttempt
    \/ ReturnExhausted
    \/ SaveSubjectOpen
    \/ SaveSubjectDump
    \/ RecordResult
    \/ SaveProgressOpen
    \/ SaveProgressDump
    \/ Interrupt

\* One run of scrape_all_subjects, possibly interrupted.
Spec == Init /\ [][Next]_vars

NextRestart ==
    \/ Next
    \/ Restart

\* Runs of scrape_all_subjects over the same subject list, one after another.
SpecRestart == Init /\ [][NextRestart]_vars

(***************************************************************************)
(* _robust_request: one call.  Every pass of its while loop sends one HTTP *)
(* request; the response is returned, or the exception of the pass is      *)
(* handled: ConnectionError, Timeout and HTTPError with status 502, 503 or *)
(* 504 count the pass in attempt, compute wait_time, sleep and loop; any   *)
(* other HTTPError is raised again.                                        *)
(***************************************************************************)
\* Largest e for which float(2 ** e) exists is FloatMaxExp - 1: the product
\* 1.0 * (2 ** e) converts the integer 2 ** e to a double and raises
\* OverflowError from 2 ** 1024 on.
FloatMaxExp == 1024

\* min(60, 2 ** e) by repeated doubling; once the power has passed 60 the
\* minimum is 60 whatever e is.
RECURSIVE MinPow2(_, _)
MinPow2(e, acc) ==
    IF e = 0 THEN (IF acc < 60 THEN acc ELSE 60)
    ELSE IF acc >= 60 THEN 60
    ELSE MinPow2(e - 1, 2 * acc)

\* wait_time = min(60, 1.0 * (2 ** (attempt - 1)))
BackoffWait(attempt_) ==
    IF attempt_ - 1 >= FloatMaxExp
    THEN [raised |-> TRUE, value |-> 0]
    ELSE [raised |-> FALSE, value |-> MinPow2(attempt_ - 1, 1)]

\* Statuses for which raise_for_status raises HTTPError, as tried here.
HTTPErrorStatuses == {400, 404, 429, 500, 502, 503, 504}

RetriesStatus_all_server_errors(status) == status >= 500

\* if e.response.status_code in [502, 503, 504]
RetriesStatus(status) == status \in {502, 503, 504}

mainVars == << pc, ret_pc, saved_file, loopVars, searchVars, detailVars, trackerVars,
               diskVars >>

\* The handler of a retried exception: count, compute wait_time, sleep.
BackoffAndRetry(error) ==
    /\ request_attempt' = request_attempt + 1
    /\ LET w == BackoffWait(request_attempt + 1)
       IN  IF w.raised
           THEN /\ request_pc' = "raised"
                /\ request_error' = "OverflowError"
                /\ UNCHANGED << wait_time, sleeps >>
           ELSE /\ request_pc' = "send"
                /\ request_error' = error
                /\ wait_time' = w.value
                /\ sleeps' = sleeps + 1

\* The request is answered with a status that raise_for_status accepts.
RequestReturns ==
    /\ request_pc = "send"
    /\ requests_sent' = requests_sent + 1
    /\ status_code' = 200
    /\ request_error' = "none"
    /\ request_pc' = "returned"
    /\ UNCHANGED << request_attempt, wait_time, sleeps, mainVars, validateVars, traverseVars, pureVars >>

\* except (ConnectionError, Timeout)
RequestNetworkError ==
    /\ request_pc = "send"
    /\ requests_sent' = requests_sent + 1
    /\ status_code' = 0
    /\ \E e \in {"ConnectionError", "Timeout"} : BackoffAndRetry(e)
    /\ UNCHANGED << mainVars, validateVars, traverseVars, pureVars >>

\* except HTTPError
RequestHTTPError ==
    /\ request_pc = "send"
    /\ requests_sent' = requests_sent + 1
    /\ \E status \in HTTPErrorStatuses :
         /\ status_code' = status
         /\ IF RetriesStatus(status)
            THEN BackoffAndRetry("HTTPError")
            ELSE /\ request_pc' = "raised"
                 /\ request_error' = "HTTPError"
                 /\ UNCHANGED << request_attempt, wait_time, sleeps >>
    /\ UNCHANGED << mainVars, validateVars, traverseVars, pureVars >>

NextRequest ==
    \/ RequestReturns
    \/ RequestNetworkError
    \/ RequestHTTPError

\* One call of _robust_request against a server that may fail any number of
\* times.
SpecRequest == Init /\ [][NextRequest]_vars

(***************************************************************************)
(* _validate_captcha_response applied to one page, every page shape tried. *)
(***************************************************************************)
InitValidate ==
    /\ InitRun
    /\ page \in Pages
    /\ verdict = NoVerdict
    /\ InitTraverse
    /\ NoCall

Validate ==
    /\ verdict = NoVerdict
    /\ verdict' = _validate_captcha_response(page)
    /\ UNCHANGED << page, mainVars, requestVars, traverseVars, pureVars >>

NextValidate == Validate

SpecValidate == InitValidate /\ [][NextValidate]_vars

\* A run whose steps are taken as long as one is possible: every call made by
\* the run returns or raises.
SpecFair == Spec /\ WF_vars(Next)

\* A postback of the given kind for course c, term t and row r: echoed is
\* the page its hidden inputs were copied from, prev the response of the
\* round trip before it.
Post(kind, c, t, r) ==
    last_post' = [kind |-> kind, course |-> c, term |-> t, row |-> r,
                  echoed |-> PostbackSource(kind, ListingPage, detail_html, html),
                  prev |-> last_response]

\* Where the walk goes after a failure of the given kind.
AfterFailure(kind, resume) == IF CaughtLocally(kind) THEN resume ELSE "aborted"

Omit(kind) == base_course' = [base_course EXCEPT !.omitted = @ \cup {kind}]

OmitTerm ==
    base_course' = [base_course EXCEPT !.omitted = @ \cup {"term"},
                                       !.lost_terms = @ + 1]

\* get_course_details has returned: its local variables are gone.
LocalsDropped ==
    /\ base_course' = Course(0)
    /\ available_terms' = << >>
    /\ current_selected' = ""
    /\ html' = ListingPage
    /\ detail_html' = ListingPage

\* get_course_details(course, response.text): a course without a postback
\* target is returned as it is; otherwise the form is built from the hidden
\* inputs of the listing and posted with the course link as __EVENTTARGET.
GetCourseDetails ==
    /\ dpc = "listing"
    /\ course_i < MaxCourses
    /\ \E has_target \in BOOLEAN, ok \in BOOLEAN, sel \in Selectors, cur \in TermCodes :
         LET c == course_i + 1 IN
         /\ cur = "" \/ \E k \in 1..Len(sel.options) : sel.options[k] = cur
         /\ IF ~has_target
            THEN /\ detailed_courses' = Append(detailed_courses, Course(c))
                 /\ course_i' = c
                 /\ UNCHANGED << dpc, base_course, available_terms, current_selected,
                                 html, detail_html, last_response, last_post >>
            ELSE /\ Post("detail", c, 0, 0)
                 /\ IF ok
                    THEN /\ detail_html' = PageOf("detail", c, 0, 0)
                         /\ html' = PageOf("detail", c, 0, 0)
                         /\ last_response' = PageOf("detail", c, 0, 0)
                         /\ base_course' =
                              [Course(c) EXCEPT
                                 !.detail = TRUE,
                                 !.listed = AvailableTerms(sel.options),
                                 !.selector = IF sel.present THEN "present" ELSE "absent"]
                         /\ available_terms' = AvailableTerms(sel.options)
                         /\ current_selected' = cur
                         /\ dpc' = "outcome"
                         /\ UNCHANGED << course_i, detailed_courses >>
                    ELSE /\ detailed_courses' =
                              Append(detailed_courses,
                                     [Course(c) EXCEPT !.omitted = {"detail"}])
                         /\ course_i' = c
                         /\ dpc' = AfterFailure("detail", "listing")
                         /\ UNCHANGED << base_course, available_terms, current_selected,
                                         html, detail_html, last_response >>
    /\ term_i' = 0
    /\ all_term_info' = << >>
    /\ schedule_rows' = << >>
    /\ row_i' = 0
    /\ sections_data' = << >>
    /\ UNCHANGED << mainVars, requestVars, validateVars, pureVars >>

\* _scrape_course_outcome(html, base_course) with the detail page.
ScrapeCourseOutcome ==
    /\ dpc = "outcome"
    /\ \E outcome_btn \in BOOLEAN, ok \in BOOLEAN :
         LET resume == IF base_course.selector = "absent"
                       THEN "current_term" ELSE "terms" IN
         IF get_course_outcome /\ outcome_btn
         THEN /\ Post("outcome", base_course.course_code, 0, 0)
              /\ IF ok
                 THEN /\ last_response' = PageOf("outcome", base_course.course_code, 0, 0)
                      /\ dpc' = resume
                      /\ UNCHANGED base_course
                 ELSE /\ Omit("outcome")
                      /\ dpc' = AfterFailure("outcome", resume)
                      /\ UNCHANGED last_response
         ELSE /\ dpc' = resume
              /\ UNCHANGED << base_course, last_response, last_post >>
    /\ UNCHANGED << course_i, detailed_courses, available_terms, current_selected,
                    term_i, all_term_info, html, detail_html, schedule_rows, row_i,
                    sections_data >>
    /\ UNCHANGED << mainVars, requestVars, validateVars, pureVars >>

\* if not term_select: current_term = self._parse_current_term_info(html);
\* if current_term: base_course.terms = [current_term]; return base_course
ParseCurrentTerm ==
    /\ dpc = "current_term"
    /\ \E table \in Schedules :
         /\ schedule_rows' = table
         /\ detailed_courses' =
              Append(detailed_courses,
                     [base_course EXCEPT !.terms = _parse_current_term_info(table)])
    /\ course_i' = course_i + 1
    /\ dpc' = "listing"
    /\ LocalsDropped
    /\ UNCHANGED << term_i, all_term_info, last_response, last_post, row_i,
                    sections_data >>
    /\ UNCHANGED << mainVars, requestVars, validateVars, pureVars >>

\* _scrape_term_details, first half: the term is selected with a postback
\* built from the detail page unless it is the selected option already.
SelectTerm ==
    /\ dpc = "terms"
    /\ term_i < Len(available_terms)
    /\ term_i' = term_i + 1
    /\ IF available_terms[term_i + 1] = current_selected
       THEN /\ html' = detail_html
            /\ dpc' = "show_sections"
            /\ UNCHANGED << base_course, last_response, last_post >>
       ELSE /\ Post("term_change", base_course.course_code, term_i + 1, 0)
            /\ \E ok \in BOOLEAN :
                 IF ok
                 THEN /\ html' = PageOf("term", base_course.course_code, term_i + 1, 0)
                      /\ last_response' = html'
                      /\ dpc' = "show_sections"
                      /\ UNCHANGED base_course
                 ELSE /\ OmitTerm
                      /\ dpc' = AfterFailure("term_change", "terms")
                      /\ UNCHANGED << html, last_response >>
    /\ UNCHANGED << course_i, detailed_courses, available_terms, current_selected,
                    all_term_info, detail_html, schedule_rows, row_i, sections_data >>
    /\ UNCHANGED << mainVars, requestVars, validateVars, pureVars >>

\* _scrape_term_details, second half: the "Show sections" button is pressed
\* with a form built from the page in hand when it is there and enabled.
ShowSections ==
    /\ dpc = "show_sections"
    /\ \E show_sections_btn \in {"absent", "disabled", "enabled"}, ok \in BOOLEAN :
         IF show_sections_btn = "enabled"
         THEN /\ Post("show_sections", base_course.course_code, term_i, 0)
              /\ IF ok
                 THEN /\ html' = PageOf("sections", base_course.course_code, term_i, 0)
                      /\ last_response' = html'
                      /\ dpc' = "parse_term"
                      /\ UNCHANGED base_course
                 ELSE /\ OmitTerm
                      /\ dpc' = AfterFailure("show_sections", "terms")
                      /\ UNCHANGED << html, last_response >>
         ELSE /\ dpc' = "parse_term"
              /\ UNCHANGED << base_course, html, last_response, last_post >>
    /\ UNCHANGED << course_i, detailed_courses, available_terms, current_selected,
                    term_i, all_term_info, detail_html, schedule_rows, row_i,
                    sections_data >>
    /\ UNCHANGED << mainVars, requestVars, validateVars, pureVars >>

\* _parse_term_info(html, term_code, term_name): _create_term_info with the
\* configured get_enrollment_details.
ParseTermInfo ==
    /\ dpc = "parse_term"
    /\ \E table \in Schedules :
         /\ schedule_rows' = table
         /\ IF get_enrollment_details
            THEN /\ dpc' = "drill"
                 /\ UNCHANGED all_term_info
            ELSE /\ dpc' = "terms"
                 /\ all_term_info' =
                      all_term_info
                          \o _create_term_info(_parse_schedule_from_html(table, 1),
                                               available_terms[term_i],
                                               available_terms[term_i])
    /\ row_i' = 0
    /\ sections_data' = << >>
    /\ UNCHANGED << course_i, detailed_courses, base_course, available_terms,
                    current_selected, term_i, html, detail_html, last_response,
                    last_post >>
    /\ UNCHANGED << mainVars, requestVars, validateVars, pureVars >>

\* _parse_schedule_with_enrollment_details, one row: a row without a link
\* or whose label fails the test is skipped; otherwise
\* _get_section_enrollment_details posts the link with a form built from
\* the page being parsed, and the section is stored only if that returned
\* the parsed class page.
SectionDrillDown ==
    /\ dpc = "drill"
    /\ row_i < Len(schedule_rows)
    /\ row_i' = row_i + 1
    /\ IF schedule_rows[row_i + 1].link /\ schedule_rows[row_i + 1].label_ok
       THEN /\ Post("drill", base_course.course_code, term_i, row_i + 1)
            /\ \E ok \in BOOLEAN :
                 IF ok
                 THEN /\ last_response' =
                           PageOf("class", base_course.course_code, term_i, row_i + 1)
                      /\ sections_data' =
                           Append(sections_data,
                                  [row |-> row_i + 1, drilled |-> TRUE,
                                   availability |-> TRUE])
                      /\ dpc' = "drill"
                      /\ UNCHANGED base_course
                 ELSE /\ Omit("drill")
                      /\ dpc' = AfterFailure("drill", "drill")
                      /\ UNCHANGED << last_response, sections_data >>
       ELSE UNCHANGED << dpc, base_course, last_response, last_post, sections_data >>
    /\ UNCHANGED << course_i, detailed_courses, available_terms, current_selected,
                    term_i, all_term_info, html, detail_html, schedule_rows >>
    /\ UNCHANGED << mainVars, requestVars, validateVars, pureVars >>

\* The rows are used up: _create_term_info returns the TermInfo and the loop
\* over the terms appends it.
AppendTermInfo ==
    /\ dpc = "drill"
    /\ row_i = Len(schedule_rows)
    /\ all_term_info' =
         all_term_info \o _create_term_info(sections_data, available_terms[term_i],
                                            available_terms[term_i])
    /\ dpc' = "terms"
    /\ UNCHANGED << course_i, detailed_courses, base_course, available_terms,
                    current_selected, term_i, html, detail_html, last_response,
                    last_post, schedule_rows, row_i, sections_data >>
    /\ UNCHANGED << mainVars, requestVars, validateVars, pureVars >>

\* base_course.terms = all_term_info; return base_course; the detail loop
\* appends the course to detailed_courses.
ReturnCourse ==
    /\ dpc = "terms"
    /\ term_i = Len(available_terms)
    /\ detailed_courses' =
         Append(detailed_courses, [base_course EXCEPT !.terms = all_term_info])
    /\ course_i' = course_i + 1
    /\ dpc' = "listing"
    /\ LocalsDropped
    /\ term_i' = 0
    /\ all_term_info' = << >>
    /\ schedule_rows' = << >>
    /\ row_i' = 0
    /\ sections_data' = << >>
    /\ UNCHANGED << last_response, last_post >>
    /\ UNCHANGED << mainVars, requestVars, validateVars, pureVars >>

NextTraverse ==
    \/ GetCourseDetails
    \/ ScrapeCourseOutcome
    \/ ParseCurrentTerm
    \/ SelectTerm
    \/ ShowSections
    \/ ParseTermInfo
    \/ SectionDrillDown
    \/ AppendTermInfo
    \/ ReturnCourse

\* The detail loop of one accepted listing, every page shape and every
\* failure tried.
SpecTraverse == Init /\ [][NextTraverse]_vars

(***************************************************************************)
(* One call of one of the functions above.                                 *)
(***************************************************************************)
InitPure ==
    /\ InitRun
    /\ page = BlankPage
    /\ verdict = NoVerdict
    /\ InitTraverse
    /\ call \in Calls
    /\ returned = FALSE
    /\ result = << >>

CallCleanClassAttributes ==
    /\ call.fn = "clean_class_attributes"
    /\ ~returned
    /\ returned' = TRUE
    /\ result' = clean_class_attributes(call.class_attrs, call.course_attrs)
    /\ UNCHANGED << call, mainVars, requestVars, validateVars, traverseVars >>

CallParseTimeString ==
    /\ call.fn = "parse_time_string"
    /\ ~returned
    /\ returned' = TRUE
    /\ result' = parse_time_string(call.time_str)
    /\ UNCHANGED << call, mainVars, requestVars, validateVars, traverseVars >>

CallParseClassAvailability ==
    /\ call.fn = "_parse_class_availability"
    /\ ~returned
    /\ returned' = TRUE
    /\ result' = << _parse_class_availability(call.available_seats, call.waitlist_total) >>
    /\ UNCHANGED << call, mainVars, requestVars, validateVars, traverseVars >>

CallParseSchedule ==
    /\ call.fn = "parse_schedule"
    /\ ~returned
    /\ returned' = TRUE
    /\ result' = << KeepsRow(call.enrollment, call.row) >>
    /\ UNCHANGED << call, mainVars, requestVars, validateVars, traverseVars >>

CallHtmlToMarkdown ==
    /\ call.fn = "_html_to_markdown"
    /\ ~returned
    /\ returned' = TRUE
    /\ result' = << _html_to_markdown(call.html_content, call.markdown, call.plain) >>
    /\ UNCHANGED << call, mainVars, requestVars, validateVars, traverseVars >>

CallScrapeCourseOutcome ==
    /\ call.fn = "_scrape_course_outcome"
    /\ ~returned
    /\ returned' = TRUE
    /\ result' = << _scrape_course_outcome(call.outcome_btn, call.response, call.course) >>
    /\ UNCHANGED << call, mainVars, requestVars, validateVars, traverseVars >>

CallScrapeTermDetails ==
    /\ call.fn = "_scrape_term_details"
    /\ ~returned
    /\ returned' = TRUE
    /\ result' = << _scrape_term_details(call) >>
    /\ UNCHANGED << call, mainVars, requestVars, validateVars, traverseVars >>

CallParseScheduleFromHtml ==
    /\ call.fn = "_parse_schedule_from_html"
    /\ ~returned
    /\ returned' = TRUE
    /\ result' = ScheduleData(call.rows)
    /\ UNCHANGED << call, mainVars, requestVars, validateVars, traverseVars >>

CallUpdateCourseProgress ==
    /\ call.fn = "update_course_progress"
    /\ ~returned
    /\ returned' = TRUE
    /\ result' = << update_course_progress(TrackedData(call.status, call.completed_courses),
                                           call.s, call.course_code, call.total) >>
    /\ UNCHANGED << call, mainVars, requestVars, validateVars, traverseVars >>

NextPure ==
    \/ CallUpdateCourseProgress
    \/ CallParseScheduleFromHtml
    \/ CallScrapeTermDetails
    \/ CallScrapeCourseOutcome
    \/ CallHtmlToMarkdown
    \/ CallCleanClassAttributes
    \/ CallParseTimeString
    \/ CallParseClassAvailability
    \/ CallParseSchedule

SpecPure == InitPure /\ [][NextPure]_vars

(***************************************************************************)
(* Claims.                                                                 *)
(***************************************************************************)
RetriedOutcomes ==
    {"captcha_failed", "server_error", "captcha_failed_no_table",
     "unknown_error", "empty_unclear"}

\* The outcome with which the step out of an attempt leaves it.
LastOutcome == IF pc = "post" THEN validation' ELSE validation

LeavesAttempt == pc \in {"post", "details"} /\ pc' \in {"attempt", "save_subject_open"}

\* C1 as stated: after outcome 2 (server_error), 4 (unknown_error) or 7
\* (empty_unclear) no further search attempt is made for the subject.
C1_NoAttemptAfterAnomaly ==
    [][ (pc = "attempt"
         /\ validation \in {"server_error", "unknown_error", "empty_unclear"})
        => pc' # "post" ]_vars

\* C1 amended: scrape_subject leaves its loop before the attempts are used up
\* only after outcome 5 (no_records) or 6 (has_courses); after outcomes 1, 2,
\* 3, 4 and 7 it goes to the next attempt, and while attempts remain the loop
\* head starts one.
C1_OnlySuccessEndsLoop ==
    [][ /\ (pc' = "save_subject_open" /\ pc # "save_subject_open")
            => (validation \in {"no_records", "has_courses"} \/ attempt >= max_retries)
        /\ (LeavesAttempt /\ LastOutcome \in RetriedOutcomes)
            => (pc' = "attempt" /\ attempt' = attempt + 1)
        /\ (pc = "attempt" /\ attempt < max_retries)
            => pc' \in {"post", "attempt", "stopped"} ]_vars

\* C1 witness: the loop is back at its head for a second attempt after an
\* accepted response of unclear content (outcome 7), the subject already
\* marked in_progress.
C1_Witness ==
    /\ pc = "attempt"
    /\ attempt = 1
    /\ validation = "empty_unclear"
    /\ progress_data.subjects[subject].status = "in_progress"

\* C2: in an attempt whose guess was unusable (_solve_captcha returned None)
\* no search form is posted.
C2_NoPostWithoutGuess ==
    [][ (pc = "post" /\ captcha_text = None) => posts' = posts ]_vars

\* C3: a subject whose attempts all ended in a rejection or an exception is
\* recorded as failed, in the progress document and in the result.
C3_ExhaustedIsFailed ==
    [][ (pc = "record" /\ ret_kind = "exhausted" /\ rejected_only /\ pc' # "stopped")
        => /\ progress_data'.subjects[subject].status = "failed"
           /\ InSeq(subject, failed_subjects') ]_vars

\* C4: a subject whose record was completed when the run started is not
\* contacted over the network and keeps its record.
C4_CompletedIsSkipped ==
    \A s \in Subjects :
        loaded[s].status = "completed"
            => (~requested[s] /\ progress_data.subjects[s] = loaded[s])

\* C5: after a crash and a restart over the same list, the documents of the
\* subjects completed before the crash are what they were before it once the
\* restarted run has finished (a document whose rewrite failed part-way is
\* left aside).
C5_CompletedDocsKept ==
    (crashed /\ pc = "done")
        => \A s \in Subjects :
              (loaded[s].status = "completed" /\ docs[s].state = "complete")
                  => docs[s] = docs_at_start[s]

\* C6: after a crash and a restart, a subject whose persisted status is
\* in_progress is scraped again: the restarted run neither finishes nor
\* counts the subject as completed or failed without having contacted the
\* server for it.
C6_InterruptedIsRescraped ==
    \A s \in Subjects :
        (/\ crashed
         /\ loaded[s].status = "in_progress"
         /\ \/ pc = "done"
            \/ InSeq(s, completed_subjects)
            \/ InSeq(s, failed_subjects))
            => requested[s]

\* C6 witness: a restarted run after a crash has finished, and a subject it
\* loaded as in_progress was scraped again.
C6_Witness ==
    /\ crashed
    /\ pc = "done"
    /\ \E s \in Subjects : loaded[s].status = "in_progress" /\ requested[s]

\* C7: after an interrupt, loading the progress file recovers every subject
\* the file held when the last save ended, and the documents of the subjects
\* completed in the run are complete.
C7_InterruptKeepsSaved ==
    pc = "stopped"
        => /\ \A s \in last_saved :
                _load_progress(progress_file).subjects[s].status # "none"
           /\ \A k \in 1..Len(completed_subjects) :
                docs[completed_subjects[k]].state = "complete"

\* C8: a subject's document is never a partial document, not even after a
\* crash or a write error during _save_subject_immediately (the instants of
\* the write itself are left aside).
C8_DocsNeverPartial ==
    pc # "save_subject_dump" => \A s \in Subjects : docs[s].state # "partial"

OpReturned == pc \notin {"save_progress_open", "save_progress_dump", "stopped"}

\* C9 as stated: after each of start_subject, update_course_progress,
\* complete_subject and fail_subject has returned, the progress file equals
\* the in-memory progress state (a write that raised is left aside).
C9_FileEqualsMemoryAfterEveryOp ==
    (/\ tracker_op \in {"start_subject", "update_course_progress",
                        "complete_subject", "fail_subject"}
     /\ OpReturned
     /\ save_result # "error")
        => progress_file = CompleteFile(progress_data)

\* C9 amended: start_subject, complete_subject, fail_subject and the periodic
\* save have called _save_progress when they return, and unless that write
\* raised the progress file then equals the in-memory progress state.
C9_FileEqualsMemoryAfterSavingOps ==
    (/\ tracker_op \in {"start_subject", "complete_subject", "fail_subject",
                        "save_periodic_progress"}
     /\ OpReturned)
        => /\ save_result \in {"ok", "error"}
           /\ save_result = "ok" => progress_file = CompleteFile(progress_data)

\* C9 witness: complete_subject has returned and its write went through.
C9_Witness ==
    /\ tracker_op = "complete_subject"
    /\ pc = "next_subject"
    /\ save_result = "ok"
    /\ progress_file = CompleteFile(progress_data)

\* C10: after a crash in the detail loop, every course of the subject that
\* was completed more than one interval before the crash is in the
\* completed_courses list recovered from a readable progress file.
C10_CrashLosesAtMostOneInterval ==
    (pc = "stopped" /\ progress_file.state = "complete")
        => \A k \in 1..Len(done_at) :
              now - done_at[k] > progress_update_interval
                  => InSeq(courses[k],
                           _load_progress(progress_file).subjects[subject].completed_courses)

HasRecord(data, s) == data.subjects[s].status # "none"

\* C11: a subject that had a record in the progress file when the last save
\* ended has a record in the manager's progress document after every tracker
\* operation and after every restart of the process (the tracker created
\* again by _load_progress).
C11_HistoryNeverDeleted ==
    [][ \A s \in last_saved : HasRecord(progress_data', s) ]_vars

\* C12: over the tracker operations of a process the retry_count of a
\* subject never decreases: fail_subject raises it by exactly one, and
\* start_subject, update_course_progress and complete_subject carry it over
\* unchanged.
C12_RetryCountAccumulates ==
    [][ run' = run =>
          \A s \in Subjects :
              progress_data'.subjects[s].retry_count =
                  progress_data.subjects[s].retry_count
                    + (IF pc = "record" /\ tracker_op' = "fail_subject" /\ s = subject
                       THEN 1 ELSE 0) ]_vars

\* C12 witness: a subject failed in the first run, was started again in the
\* second run with its count carried over, and failed again.
C12_Witness ==
    \E s \in Subjects :
        /\ progress_data.subjects[s].status = "failed"
        /\ progress_data.subjects[s].retry_count = 2

\* The step sends a request that fails with ConnectionError, Timeout or a
\* 502/503/504 response.
RetriedFailure ==
    /\ request_pc = "send"
    /\ requests_sent' = requests_sent + 1
    /\ status_code' \in {0, 502, 503, 504}

\* 1, 2, 4, ... seconds, capped at 60.
ExpectedWait(k) == IF k >= 7 THEN 60 ELSE 2 ^ (k - 1)

\* C13: every connection error, timeout and 502/503/504 response is retried,
\* however many came before it in the call, and the wait before the k-th
\* retry is min(60, 2^(k-1)) seconds.
C13_RetriesWithoutBound ==
    [][ RetriedFailure
            => /\ request_pc' = "send"
               /\ request_attempt' = request_attempt + 1
               /\ wait_time' = ExpectedWait(request_attempt') ]_vars

OutcomeName ==
    << "captcha_failed", "server_error", "captcha_failed_no_table", "unknown_error",
       "no_records", "has_courses", "empty_unclear" >>

Rule(k, p) ==
    CASE k = 1 -> p.error_span = "invalid_code"
      [] k = 2 -> p.error_span = "other"
      [] k = 3 -> ~p.results_table /\ p.search_form
      [] k = 4 -> ~p.results_table /\ ~p.search_form
      [] k = 5 -> p.results_table /\ p.empty_row = "no_record_found"
      [] k = 6 -> p.results_table /\ p.course_links
      [] OTHER -> TRUE

FirstRule(p) ==
    CHOOSE k \in 1..7 : Rule(k, p) /\ \A j \in 1..(k - 1) : ~Rule(j, p)

\* C15: for every page shape _validate_captcha_response returns one of the
\* seven outcomes, namely that of the first rule of the priority order that
\* matches; an error indicator with non-empty text decides the outcome
\* whatever the results table holds.
C15_ValidationTotalAndOrdered ==
    verdict # NoVerdict
        => /\ verdict.result_type = OutcomeName[FirstRule(page)]
           /\ page.error_span \in {"invalid_code", "other"}
                 => verdict.result_type \in {"captcha_failed", "server_error"}

\* C15 witness: a page with an error text and a results table holding course
\* links has been classified.
C15_Witness ==
    /\ verdict # NoVerdict
    /\ page.error_span = "other"
    /\ page.results_table
    /\ page.course_links

C17_LoopBounded ==
    /\ [](posts <= max_retries /\ attempt <= max_retries)
    /\ (pc \in {"attempt", "post", "details"}) ~> (pc \in {"save_subject_open", "stopped"})

\* C17 witness: all attempts of a call are used up and each of them posted
\* the search form.
C17_Witness ==
    /\ pc = "attempt"
    /\ attempt = max_retries
    /\ posts = max_retries

\* C18: a search form about to be posted that carries txt_captcha carries a
\* value of exactly 4 alphanumeric characters.
C18_PostedGuessIsValidated ==
    (pc = "post" /\ "txt_captcha" \in DOMAIN form_data)
        => /\ Len(form_data["txt_captcha"]) = 4
           /\ IsAlnum(form_data["txt_captcha"])

\* C18 witness: a form with a guess is about to be posted; the guess is the
\* stripped, upper-cased output of the classifier.
C18_Witness ==
    /\ pc = "post"
    /\ "txt_captcha" \in DOMAIN form_data
    /\ form_data["txt_captcha"] = <<"A", "B", "7", "7">>
    /\ captcha_text = form_data["txt_captcha"]

\* The summary (print_summary and the final log lines) is produced after the
\* loop over the subjects, so a run has reported exactly when it got there.
Reported == pc = "done"

RunEnded == pc \in {"done", "stopped"}

\* C19: however a run of scrape_all_subjects ends, an interrupt included, it
\* has reported its result and every subject of the list is in exactly one
\* of the lists completed and failed.
C19_RunEndsWithReport ==
    RunEnded
        => /\ Reported
           /\ \A s \in Subjects :
                 InSeq(s, completed_subjects) # InSeq(s, failed_subjects)

\* C20: when the write of a subject's document has failed, that subject and
\* no other is recorded as failed (in the result list and in the progress
\* document), the run goes on to the next subject, and neither the failing
\* write nor the recording changes the document of any other subject.
C20_SaveFailureIsLocal ==
    [][ /\ (pc = "record" /\ ~saved_file /\ pc' # "stopped")
           => /\ failed_subjects' = Append(failed_subjects, subject)
              /\ completed_subjects' = completed_subjects
              /\ progress_data'.subjects[subject].status = "failed"
              /\ \A t \in Subjects \ {subject} :
                    progress_data'.subjects[t] = progress_data.subjects[t]
              /\ docs' = docs
              /\ ret_pc' = "next_subject"
        /\ (pc \in {"save_subject_open", "save_subject_dump"})
           => \A t \in Subjects \ {subject} : docs'[t] = docs[t]
      ]_vars

\* C20 witness: the write of the first subject's document failed, the
\* subject is the only one recorded as failed, and the run went on and
\* completed the second subject.
C20_Witness ==
    /\ pc = "done"
    /\ failed_subjects = <<1>>
    /\ completed_subjects = <<2>>
    /\ progress_data.subjects[1].status = "failed"
    /\ docs[1].state = "partial"
    /\ docs[2].state = "complete"

\* A subject is in progress from its first request until its result is
\* recorded.
Recorded(s) == InSeq(s, completed_subjects) \/ InSeq(s, failed_subjects)

InProgress(s) == requested[s] /\ ~Recorded(s)

\* C21: a subject is contacted only when every subject before it in the list
\* has been recorded as completed (its document written) or as failed, and
\* at most one subject is in progress at any time.
C21_SubjectsSequential ==
    /\ \A s \in Subjects :
          requested[s]
              => \A t \in 1..(s - 1) :
                    /\ Recorded(t)
                    /\ InSeq(t, completed_subjects) => docs[t].state = "complete"
    /\ Cardinality({s \in Subjects : InProgress(s)}) <= 1

\* C21 witness: the search for the second subject is under way and the first
\* subject's document is written.
C21_Witness ==
    /\ pc = "post"
    /\ i = 2
    /\ requested[2]
    /\ completed_subjects = <<1>>
    /\ docs[1].state = "complete"

\* C22 as stated: every postback of the detail loop echoes the hidden state
\* tokens of the response of the round trip immediately before it.
C22_EchoesLastResponse ==
    last_post.kind # "none" => last_post.echoed = last_post.prev

\* C22 amended: every postback echoes the hidden state tokens of the page
\* that holds the control it triggers: the listing for a course link, the
\* detail page of the course for the course outcome and for a term change,
\* the page in hand for the term (the detail page or the answer to the term
\* change) for "Show sections", and the page whose section table is being
\* parsed for a section link.
C22_EchoesPageOfControl ==
    /\ last_post.kind = "detail" => last_post.echoed = ListingPage
    /\ last_post.kind \in {"outcome", "term_change"}
         => last_post.echoed = PageOf("detail", last_post.course, 0, 0)
    /\ last_post.kind = "show_sections"
         => last_post.echoed \in {PageOf("detail", last_post.course, 0, 0),
                                  PageOf("term", last_post.course, last_post.term, 0)}
    /\ last_post.kind = "drill"
         => last_post.echoed \in {PageOf("detail", last_post.course, 0, 0),
                                  PageOf("term", last_post.course, last_post.term, 0),
                                  PageOf("sections", last_post.course, last_post.term, 0)}

\* The second term of a course is selected with the tokens of the detail
\* page although the last response was a page of the first term.
C22_Witness ==
    /\ last_post.kind = "term_change"
    /\ last_post.term = 2
    /\ last_post.prev.kind \in {"term", "sections", "class"}
    /\ last_post.echoed = PageOf("detail", last_post.course, 0, 0)

TermCodesOf(course) == [k \in 1..Len(course.terms) |-> course.terms[k].term_code]

DetailedCourses == {detailed_courses[k] : k \in 1..Len(detailed_courses)}

RECURSIVE IsSubSeq(_, _)
IsSubSeq(a, b) ==
    IF a = << >> THEN TRUE
    ELSE IF b = << >> THEN FALSE
         ELSE IF Head(a) = Head(b) THEN IsSubSeq(Tail(a), Tail(b))
              ELSE IsSubSeq(a, Tail(b))

\* C23 as stated: a course whose detail page has no term selector gets
\* exactly one TermOffering, a course whose selector lists n terms gets n
\* TermOfferings in selector order.
C23_OneTermPerListedTerm ==
    \A course \in DetailedCourses :
        /\ course.selector = "absent" => Len(course.terms) = 1
        /\ course.selector = "present" => TermCodesOf(course) = course.listed

\* C23 amended: without a term selector the course gets one TermOffering
\* (empty term code, "Unknown Term") when the detail page shows at least one
\* section row and none otherwise; with a selector it gets one TermOffering
\* for every listed term whose round trips succeeded, in selector order, so n
\* when none of them failed.
C23_TermsFollowSelector ==
    /\ \A course \in DetailedCourses :
          /\ course.selector = "absent" =>
                /\ Len(course.terms) <= 1
                /\ \A k \in 1..Len(course.terms) :
                      /\ course.terms[k].term_code = ""
                      /\ course.terms[k].schedule # << >>
          /\ course.selector = "present" =>
                /\ IsSubSeq(TermCodesOf(course), course.listed)
                /\ Len(course.terms) = Len(course.listed) - course.lost_terms
                /\ course.lost_terms = 0 => TermCodesOf(course) = course.listed
    /\ (dpc = "listing" /\ course_i > 0
        /\ detailed_courses[course_i].selector = "absent")
          => Len(detailed_courses[course_i].terms)
               = IF \E k \in 1..Len(schedule_rows) : schedule_rows[k].label_ok
                 THEN 1 ELSE 0

\* The scenario of the specification: two listing rows, the first course
\* without selector, the second with two terms.
C23_Witness ==
    /\ dpc = "listing"
    /\ Len(detailed_courses) = 2
    /\ detailed_courses[1].selector = "absent"
    /\ Len(detailed_courses[1].terms) = 1
    /\ detailed_courses[2].selector = "present"
    /\ Len(detailed_courses[2].listed) = 2
    /\ Len(detailed_courses[2].terms) = 2

\* C24: in every course record no two TermOfferings have the same
\* term_code, whatever options the term selector contains.
C24_TermCodesUnique ==
    \A course \in DetailedCourses :
        \A j, k \in 1..Len(course.terms) :
            j # k => course.terms[j].term_code # course.terms[k].term_code

\* C25: with get_enrollment_details every section attached to a TermOffering
\* of a course has gone through the section-link postback and carries a
\* parsed availability snapshot, with and without a term selector.
C25_SectionsDrilledDown ==
    get_enrollment_details =>
        \A course \in DetailedCourses :
            \A k \in 1..Len(course.terms) :
                \A n \in 1..Len(course.terms[k].schedule) :
                    /\ course.terms[k].schedule[n].drilled
                    /\ course.terms[k].schedule[n].availability

AvailabilityReturned == call.fn = "_parse_class_availability" /\ returned

\* The status rule for two counts.
StatusRule(available_seats, waitlist_total) ==
    IF available_seats > 0 THEN "Open"
    ELSE IF waitlist_total > 0 THEN "Waitlisted" ELSE "Closed"

\* C26 as stated: the status is 'Open' if available seats > 0, else
\* 'Waitlisted' if waitlist total > 0, else 'Closed', and 'Unknown' whenever
\* a count cannot be parsed as a number, an empty count included.
C26_UnknownUnlessBothNumeric ==
    AvailabilityReturned =>
        result[1] = IF IntAccepts(call.available_seats) /\ IntAccepts(call.waitlist_total)
                    THEN StatusRule(IntOf(call.available_seats),
                                    IntOf(call.waitlist_total))
                    ELSE "Unknown"

\* C26 amended: an empty count is taken as 0; the status is 'Unknown' exactly
\* when a non-empty count is not an integer literal, and otherwise 'Open' if
\* available seats > 0, else 'Waitlisted' if waitlist total > 0, else
\* 'Closed'.
C26_EmptyCountsAsZero ==
    AvailabilityReturned =>
        LET Bad(text) == text # << >> /\ ~IntAccepts(text)
            Count(text) == IF text = << >> THEN 0 ELSE IntOf(text)
        IN  result[1] = IF Bad(call.available_seats) \/ Bad(call.waitlist_total)
                        THEN "Unknown"
                        ELSE StatusRule(Count(call.available_seats),
                                        Count(call.waitlist_total))

\* No available-seats text and a waiting list of 3: 'Waitlisted'.
C26_Witness ==
    /\ AvailabilityReturned
    /\ call.available_seats = << >>
    /\ call.waitlist_total = << "3" >>
    /\ result = << "Waitlisted" >>

ScheduleReturned == call.fn = "parse_schedule" /\ returned

\* The label ends with digits in parentheses, as in "--LEC (8192)".
HasNumericSuffix(section) ==
    \E j \in 1..Len(section) :
        /\ section[j] = "("
        /\ j + 1 < Len(section)
        /\ section[Len(section)] = ")"
        /\ \A k \in (j + 1)..(Len(section) - 1) : section[k] = "1"

\* The row has the cells its parsing path reads, and on the enrollment path
\* its link opened the class page.
Eligible(enrollment, row) ==
    IF enrollment THEN row.cells >= 2 /\ row.link /\ row.details ELSE row.cells >= 3

\* C27 as stated: on both parsing paths a row is retained as a section if
\* and only if its label contains a parenthesized numeric suffix.
C27_KeptIffNumericSuffix ==
    (ScheduleReturned /\ Eligible(call.enrollment, call.row))
        => (result[1] <=> HasNumericSuffix(call.row.section))

\* C27 amended: a row is retained if and only if its label contains an
\* opening and a closing parenthesis somewhere and the row has at least 3
\* cells (plain path) or at least 2 cells, a link in the first cell and a
\* class page that could be opened (enrollment path).
C27_KeptIffBothParentheses ==
    ScheduleReturned =>
        (result[1] <=>
            /\ Eligible(call.enrollment, call.row)
            /\ \E j, k \in 1..Len(call.row.section) :
                  call.row.section[j] = "(" /\ call.row.section[k] = ")")

\* A label with a parenthesized non-numeric suffix is retained.
C27_Witness ==
    /\ ScheduleReturned
    /\ ~call.enrollment
    /\ call.row.section = << "L", "(", "L", ")" >>
    /\ result = << TRUE >>

CleanReturned == call.fn = "clean_class_attributes" /\ returned

\* The lines of a text: split at newlines, surrounding blanks removed, blank
\* lines left out.
LinesOf(text) == StrippedLines(SplitLines(text, << >>))

LineSet(text) == {LinesOf(text)[k] : k \in 1..Len(LinesOf(text))}

\* C28: when every line of the course attributes is a line of the class
\* attributes, clean_class_attributes returns exactly the lines of the class
\* attributes that are not lines of the course attributes, in their order, a
\* repeated extra line as often as it occurs in the input.
C28_ExactlyTheExtraLines ==
    (CleanReturned /\ LineSet(call.course_attrs) \subseteq LineSet(call.class_attrs))
        => LET IsExtra(line) == line \notin LineSet(call.course_attrs)
           IN  LinesOf(result) = SelectSeq(LinesOf(call.class_attrs), IsExtra)

\* "b\na\na" cleaned with "b" gives "a\na".
C28_Witness ==
    /\ CleanReturned
    /\ call.class_attrs = << "b", "\n", "a", "\n", "a" >>
    /\ call.course_attrs = << "b" >>
    /\ result = << "a", "\n", "a" >>

TimeReturned == call.fn = "parse_time_string" /\ returned

\* A clock time of the 12-hour and of the 24-hour notation.
Valid12(t) == t.period # "" /\ t.hour \in 1..12 /\ t.min \in 0..59

Valid24(t) == t.period = "" /\ t.hour \in 0..23 /\ t.min \in 0..59

ValidRange(time_str) ==
    /\ time_str.text = "range"
    /\ time_str.dash
    /\ \/ Valid12(time_str.start) /\ Valid12(time_str.end)
       \/ Valid24(time_str.start) /\ Valid24(time_str.end)

\* The hour of a valid clock time on the 24-hour clock.
HourOfDay(t) ==
    IF t.period = "" THEN t.hour
    ELSE (t.hour % 12) + (IF t.period \in {"PM", "pm"} THEN 12 ELSE 0)

\* C29: for every valid 12-hour or 24-hour range parse_time_string returns
\* (start_hour, start_min, end_hour, end_min) on the 24-hour clock, and for
\* every malformed string it returns (-1, -1, -1, -1).
C29_TupleOrSentinel ==
    TimeReturned =>
        result = IF ValidRange(call.time_str)
                 THEN << HourOfDay(call.time_str.start), call.time_str.start.min,
                         HourOfDay(call.time_str.end), call.time_str.end.min >>
                 ELSE Sentinel

\* C30: a failure inside one course (detail postback, course outcome, a
\* term, a section drill-down) never aborts the subject: the walk is never
\* abandoned, every course handled so far is in the result list at its place
\* of the listing, and as long as a course of the listing is left the detail
\* loop can go on.
C30_FailuresStayLocal ==
    /\ dpc # "aborted"
    /\ Len(detailed_courses) = course_i
    /\ \A k \in 1..Len(detailed_courses) : detailed_courses[k].course_code = k
    /\ \A course \in DetailedCourses :
          "detail" \in course.omitted => course.terms = << >>
    /\ (dpc # "listing" \/ course_i < MaxCourses) => ENABLED NextTraverse

\* The detail postback of the first course failed; in the second course the
\* course outcome, one term and the section drill-down of the other term
\* failed; both courses are in the result list.
C30_Witness ==
    /\ dpc = "listing"
    /\ course_i = MaxCourses
    /\ Len(detailed_courses) = 2
    /\ detailed_courses[1].omitted = {"detail"}
    /\ detailed_courses[2].omitted = {"outcome", "term", "drill"}
    /\ Len(detailed_courses[2].terms) = 1
    /\ detailed_courses[2].terms[1].schedule = << >>

\* C31: when the markdown conversion fails or markdownify is missing,
\* _html_to_markdown returns a plain-text value and raises nothing into the
\* course-outcome extraction that called it.
C31_FallsBackToPlainText ==
    (call.fn = "_html_to_markdown" /\ returned) =>
        /\ ~result[1].raised
        /\ (call.html_content = "text" /\ call.markdown # "ok") =>
              /\ ~result[1].is_markdown
              /\ result[1].text \in {"normalized plain text", "plain text"}

\* The conversion failed and the whitespace clean-up of the fallback failed
\* as well: the basic text extraction is returned.
C31_Witness ==
    /\ call.fn = "_html_to_markdown"
    /\ returned
    /\ call.html_content = "text"
    /\ call.markdown = "Exception"
    /\ call.plain = "Exception"
    /\ result = << Returns("plain text", FALSE) >>

OutcomeReturned == call.fn = "_scrape_course_outcome" /\ returned

LogHas(level, message) ==
    \E k \in DOMAIN result[1].log : result[1].log[k] = Logged(level, message)

\* C32: on a detail page without the Course Outcome button
\* _scrape_course_outcome makes no request and records the condition as an
\* error: an ERROR record in the log (and an entry of the scraper's list of
\* failed course outcomes, a list the scraper does not have).
C32_NoButtonIsAnError ==
    (OutcomeReturned /\ ~call.outcome_btn) =>
        /\ result[1].requests = 0
        /\ LogHas("ERROR", "No Course Outcome button found")

\* C33: a Course Outcome response without any outcome element is rejected,
\* not parsed, and the outcome fields of the course keep their values.
C33_SystemErrorRejected ==
    (OutcomeReturned /\ call.outcome_btn /\ ~call.response.raises
        /\ call.response.elements = {}) =>
        /\ result[1].course = call.course
        /\ ~LogHas("INFO", "Course Outcome parsed")

TermDetailsReturned == call.fn = "_scrape_term_details" /\ returned

\* The 'Show sections' control of the page the call holds when it looks for
\* the control.
ControlSeen ==
    IF call.selected = call.term_code THEN call.button ELSE call.button_after

\* C34: _scrape_term_details sends no term-change postback when the requested
\* term is the selected option and no 'Show sections' postback when the
\* control is disabled or absent; when both hold and the enrollment details
\* are not wanted it parses the given page without any request.
C34_SkipsRedundantSubmissions ==
    TermDetailsReturned =>
        /\ (call.selected = call.term_code) =>
              ~InSeq("term_change", result[1].requests)
        /\ (ControlSeen \in {"absent", "disabled"}) =>
              ~InSeq("show_sections", result[1].requests)
        /\ (call.selected = call.term_code
            /\ call.button \in {"absent", "disabled"}
            /\ ~call.get_enrollment_details) =>
              result[1] = TermOutcome(<< >>, "given")

C34_Witness ==
    /\ TermDetailsReturned
    /\ call.selected = call.term_code
    /\ call.button = "disabled"
    /\ ~call.get_enrollment_details
    /\ call.links = 1
    /\ result = << TermOutcome(<< >>, "given") >>

\* C35: a search response classified server_error ends the attempt without
\* its results being parsed (no listing, no start_subject), and the loop is
\* back at its head with nothing of the attempt kept; while fewer than
\* max_retries attempts have been made the next step of the call is a new
\* attempt (a new GET with a new captcha guess, then its POST), otherwise
\* the call returns.
C35_ServerErrorRetries ==
    [][ /\ (pc = "post" /\ validation' = "server_error")
            => /\ pc' = "attempt"
               /\ attempt' = attempt + 1
               /\ posts' = posts + 1
               /\ courses' = courses
               /\ progress_data' = progress_data
               /\ captcha_text' = None
               /\ form_data' = EmptyForm
        /\ (pc = "attempt" /\ validation = "server_error" /\ attempt < max_retries)
            => /\ ENABLED GetSearchPage
               /\ \/ pc' = "post" /\ validation' = "none" /\ attempt' = attempt
                  \/ pc' = "attempt" /\ validation' = "exception"
                  \/ pc' = "stopped"
        /\ (pc = "attempt" /\ validation = "server_error" /\ attempt >= max_retries)
            => pc' \in {"save_subject_open", "stopped"}
      ]_vars

\* C35 witness: the first attempt ended on a server error, its form was
\* posted once, nothing was parsed, and a second attempt is due.
C35_Witness ==
    /\ pc = "attempt"
    /\ validation = "server_error"
    /\ attempt = 1
    /\ posts = 1
    /\ courses = << >>
    /\ progress_data.subjects[subject] = NoRecord
    /\ ENABLED GetSearchPage

\* C36: get_failed_subjects follows the current status of the records: the
\* subject that fail_subject has just marked is returned, whatever its record
\* was before; the subject that start_subject or complete_subject has just
\* marked is not, whatever its record was before; and within a run no
\* operation changes whether another subject is returned.
C36_FailedFollowsCurrentStatus ==
    [][ /\ (pc = "record" /\ tracker_op' = "fail_subject")
            => subject \in get_failed_subjects(progress_data')
        /\ (pc = "record" /\ tracker_op' = "complete_subject")
            => subject \notin get_failed_subjects(progress_data')
        /\ (pc = "post" /\ tracker_op' = "start_subject")
            => subject \notin get_failed_subjects(progress_data')
        /\ (run' = run)
            => \A s \in Subjects :
                  \/ i \in DOMAIN subjects /\ s = subject
                  \/ (s \in get_failed_subjects(progress_data'))
                         <=> (s \in get_failed_subjects(progress_data))
      ]_vars

\* C36 witness: in the second run the subject that had failed is completed
\* and the subject that had been completed has failed; only the latter is
\* returned.
C36_Witness ==
    /\ run = 1
    /\ loaded[1].status = "failed"
    /\ loaded[2].status = "completed"
    /\ progress_data.subjects[1].status = "completed"
    /\ progress_data.subjects[2].status = "failed"
    /\ get_failed_subjects(progress_data) = {2}

\* C38: after the load of the progress file and after every tracker
\* operation the counters of the log agree with the records: completed is
\* the number of records with status completed and failed the number with
\* status failed.
C38_CountersAgreeWithRecords ==
    /\ progress_data.completed = CountStatus(progress_data.subjects, "completed")
    /\ progress_data.failed = CountStatus(progress_data.subjects, "failed")

GroupedReturned == call.fn = "_parse_schedule_from_html" /\ returned

\* The rows of the table that pass the tests on the cells and the label.
SectionRows ==
    {k \in DOMAIN call.rows :
        /\ call.rows[k].cells >= 3
        /\ InSeq("(", call.rows[k].section)
        /\ InSeq(")", call.rows[k].section)}

FirstRowOf(label) ==
    CHOOSE k \in SectionRows :
        /\ call.rows[k].section = label
        /\ \A j \in SectionRows : call.rows[j].section = label => k <= j

\* The nested rows of the rows labelled label that yield a meeting.
MeetingRowsOf(label) ==
    {[row |-> k, meet_row |-> m] :
        k \in {j \in SectionRows : call.rows[j].section = label}, m \in 1..2}
        \cap {x \in [row : DOMAIN call.rows, meet_row : 1..2] :
                 /\ x.meet_row \in DOMAIN call.rows[x.row].meet_rows
                 /\ call.rows[x.row].meet_rows[x.meet_row]}

Before(x, y) == x.row < y.row \/ (x.row = y.row /\ x.meet_row < y.meet_row)

\* C37: the schedule holds one section per distinct valid label, in the
\* order in which the labels first appear, and the meetings of a section are
\* the meeting rows of all rows with its label, each once, in row order.
C37_GroupsRowsBySection ==
    GroupedReturned =>
        /\ {result[a].section : a \in DOMAIN result}
              = {call.rows[k].section : k \in SectionRows}
        /\ \A a, b \in DOMAIN result :
              a < b => FirstRowOf(result[a].section) < FirstRowOf(result[b].section)
        /\ \A a \in DOMAIN result :
              LET meetings == result[a].meetings
              IN  /\ {meetings[n] : n \in DOMAIN meetings}
                        = MeetingRowsOf(result[a].section)
                  /\ \A n, o \in DOMAIN meetings :
                        n < o => Before(meetings[n], meetings[o])

\* C37 witness: three rows, the first and the third with the same label;
\* the section of that label comes first and holds the meetings of both.
C37_Witness ==
    /\ GroupedReturned
    /\ Len(call.rows) = 3
    /\ call.rows[1].section = << "L", "(", ")" >>
    /\ call.rows[2].section = << "1", "(", ")" >>
    /\ call.rows[3].section = << "L", "(", ")" >>
    /\ Len(result) = 2
    /\ result[1].section = << "L", "(", ")" >>
    /\ result[1].meetings = << [row |-> 1, meet_row |-> 2], [row |-> 3, meet_row |-> 1] >>
    /\ result[2].meetings = << [row |-> 2, meet_row |-> 1] >>

UpdateReturned == call.fn = "update_course_progress" /\ returned

NoRepeat(l) == \A a, b \in DOMAIN l : l[a] = l[b] => a = b

\* C39: update_course_progress leaves the whole progress state as it was
\* unless the record of the subject is in_progress; when it is, only that
\* record changes, and its completed_courses list keeps the codes it had in
\* their order, holds the completed code, at the end when it is new, and
\* holds no code twice.
C39_UpdatesOnlyInProgress ==
    UpdateReturned =>
        LET before == TrackedData(call.status, call.completed_courses)
            after == result[1]
            old == before.subjects[call.s].completed_courses
            new == after.subjects[call.s].completed_courses
        IN  IF before.subjects[call.s].status # "in_progress"
            THEN after = before
            ELSE /\ after = [before EXCEPT !.subjects[call.s] = after.subjects[call.s]]
                 /\ after.subjects[call.s].status = "in_progress"
                 /\ after.subjects[call.s].courses_scraped = call.total
                 /\ NoRepeat(new)
                 /\ SubSeq(new, 1, Len(old)) = old
                 /\ new = IF InSeq(call.course_code, old)
                          THEN old ELSE Append(old, call.course_code)

\* C39 witness: the code completed is already the first of the two codes of
\* the list; the list is left as it was and the count is set.
C39_Witness ==
    /\ UpdateReturned
    /\ call.status = "in_progress"
    /\ call.s = 1
    /\ call.completed_courses = << "1000", "2000" >>
    /\ call.course_code = "1000"
    /\ call.total = 1
    /\ result[1].subjects[1].completed_courses = << "1000", "2000" >>
    /\ result[1].subjects[1].courses_scraped = 1

====
